---- MODULE Spec2Model ----
(***************************************************************************)
(* Model of the BelaLearn rules engine (engine/rules.ts, engine/types.ts), *)
(* the level-1 bot (bots/index.ts) and the driver in App.tsx.              *)
(*                                                                         *)
(* A card is a record [suit, rank]; arrays are sequences (1-based here,    *)
(* 0-based in the source: every index taken from the source is shifted at  *)
(* the place it is used).  null is the string Null; a null TrumpCall is    *)
(* NullBid.  Event ids and timestamps (Date.now, Math.random) are left out *)
(* of the event records: no code reads them.                               *)
(***************************************************************************)
EXTENDS Integers, Sequences, FiniteSets, TLC

VARIABLES
    gameState,    \* App's live GameState (useState, App.tsx)
    trickQ,       \* evaluateTrick call under test: [trick, trump]
    trickOut,     \* its result: [done, winner]
    legalQ,       \* legalMoves call under test: [state, playerId]
    legalOut,     \* its result: [done, cards]
    lastCall,     \* last direct call: [type, playerId, card, suit, error, input]
    timer         \* App's pending bot timeout: [pending, state], state the
                  \* gameState its callback closed over

vars == <<gameState, trickQ, trickOut, legalQ, legalOut, lastCall, timer>>

(***************************************************************************)
(* Bounds of the model.                                                    *)
(***************************************************************************)
\* number of passes already made on the states applyPass is given with a talon
MaxTalonPasses == 5

\* number of shuffles the deal is drawn from (the first NumSeeds of ShuffleSeeds)
NumSeeds == 3

\* number of ranks (the highest of RANK_ORDER) the tricks given to evaluateTrick
\* are drawn from
NumTrickRanks == 3
\* largest hand given to legalMoves when it is checked as a function
MaxHandSize == 2
\* number of completed tricks in the states given to the last applyMove of a hand
NumScoreTricks == 2

Null == "null"
NullBid == [suit |-> Null, playerId |-> Null, level |-> 0]

(***************************************************************************)
(* engine/types.ts                                                         *)
(***************************************************************************)
SUITS == <<"hearts", "diamonds", "clubs", "spades">>
RANK_ORDER == <<"7", "8", "9", "10", "J", "Q", "K", "A">>
PLAYER_ORDER == <<"north", "east", "south", "west">>

SuitSet == {SUITS[i] : i \in 1..Len(SUITS)}
RankSet == {RANK_ORDER[i] : i \in 1..Len(RANK_ORDER)}
PlayerSet == {PLAYER_ORDER[i] : i \in 1..Len(PLAYER_ORDER)}
AllCards == [suit : SuitSet, rank : RankSet]

\* Array.prototype.indexOf: 0-based index of the first occurrence, -1 if none
IndexOf(seq, x) ==
    IF \E i \in 1..Len(seq) : seq[i] = x
    THEN (CHOOSE i \in 1..Len(seq) : seq[i] = x /\ \A j \in 1..(i-1) : seq[j] # x) - 1
    ELSE -1

getRankIndex(rank) == IndexOf(RANK_ORDER, rank)

CARD_VALUES ==
    [r \in RankSet |->
        CASE r = "10" -> 10
          [] r = "J" -> 2
          [] r = "Q" -> 3
          [] r = "K" -> 4
          [] r = "A" -> 11
          [] OTHER -> 0]

getPlayerTeam(playerId) ==
    IF playerId = "north" \/ playerId = "south" THEN "team1" ELSE "team2"

getNextPlayer(playerId) ==
    PLAYER_ORDER[((IndexOf(PLAYER_ORDER, playerId) + 1) % 4) + 1]

\* card.suit[0].toUpperCase()
SuitInitial(suit) ==
    CASE suit = "hearts" -> "H"
      [] suit = "diamonds" -> "D"
      [] suit = "clubs" -> "C"
      [] suit = "spades" -> "S"

\* `${card.rank}${card.suit[0].toUpperCase()}`
cardToString(card) == card.rank \o SuitInitial(card.suit)

(***************************************************************************)
(* Array helpers with the semantics of the JavaScript built-ins.           *)
(***************************************************************************)
SeqToSet(seq) == {seq[i] : i \in 1..Len(seq)}

\* Array.prototype.filter is SelectSeq of the module Sequences.

\* Array.prototype.slice(start, end) with negative indices counted from the end
Slice(seq, start, end) ==
    LET n == Len(seq)
        s0 == IF start < 0 THEN (IF n + start < 0 THEN 0 ELSE n + start)
              ELSE (IF start > n THEN n ELSE start)
        e0 == IF end < 0 THEN (IF n + end < 0 THEN 0 ELSE n + end)
              ELSE (IF end > n THEN n ELSE end)
    IN  IF e0 <= s0 THEN <<>> ELSE SubSeq(seq, s0 + 1, e0)

\* Array.prototype.sort with a comparator (stable): the comparator is a function
\* of two elements, cmp[a, b] < 0 puts a first, elements that compare equal keep
\* their order.  SortPos is the 1-based place element i ends at.
SortPos(seq, i, cmp) ==
    Cardinality({j \in 1..Len(seq) :
        j # i /\ (cmp[seq[j], seq[i]] < 0 \/ (cmp[seq[j], seq[i]] = 0 /\ j < i))}) + 1

Sort(seq, cmp) ==
    [k \in 1..Len(seq) |-> seq[CHOOSE i \in 1..Len(seq) : SortPos(seq, i, cmp) = k]]

\* String.prototype.localeCompare on the four suit names: alphabetical order
SuitAlpha == <<"clubs", "diamonds", "hearts", "spades">>
localeCompare(a, b) ==
    IF IndexOf(SuitAlpha, a) < IndexOf(SuitAlpha, b) THEN -1
    ELSE IF IndexOf(SuitAlpha, a) > IndexOf(SuitAlpha, b) THEN 1 ELSE 0

(***************************************************************************)
(* Deck and deal (engine/rules.ts)                                         *)
(***************************************************************************)
\* the nested loops of generateDeck before the shuffle
OrderedDeck ==
    [k \in 1..(Len(SUITS) * Len(RANK_ORDER)) |->
        [suit |-> SUITS[((k - 1) \div Len(RANK_ORDER)) + 1],
         rank |-> RANK_ORDER[((k - 1) % Len(RANK_ORDER)) + 1]]]

\* Math.floor(Math.random() * (i + 1)): a value in 0..i, here a pseudo-random
\* function of the seed that stands for the state of Math.random
RandomIndex(seed, i) == ((((seed * 31 + 17) * (i + 7)) + (seed * i * i)) % 9973) % (i + 1)

\* the seeds the model shuffles with: with the first the first bidder (west) has
\* a hand BotLevel1 bids on, with the second no bot bids, with the third and the
\* fourth the first bid comes from north and from east
ShuffleSeeds == <<1, 48, 2, 17, 67, 3>>
SeedOf(k) == ShuffleSeeds[((k - 1) % Len(ShuffleSeeds)) + 1]

Swap(seq, a, b) == [seq EXCEPT ![a] = seq[b], ![b] = seq[a]]

\* Fisher-Yates: for (i = length - 1; i > 0; i--) swap deck[i], deck[j]
RECURSIVE Shuffle(_, _, _)
Shuffle(deck, i, seed) ==
    IF i <= 0 THEN deck
    ELSE Shuffle(Swap(deck, i + 1, RandomIndex(seed, i) + 1), i - 1, seed)

generateDeck(seed) == Shuffle(OrderedDeck, Len(OrderedDeck) - 1, seed)

\* comparator of dealCards: by suit name, then by descending rank
HandCompare[a \in AllCards, b \in AllCards] ==
    IF a.suit # b.suit THEN localeCompare(a.suit, b.suit)
    ELSE getRankIndex(b.rank) - getRankIndex(a.rank)

\* One step of the dealing loops: step k (0-based) pops one card for the seat
\* PLAYER_ORDER[(k div 4) % 4]; the loops make 2 * 4 * 4 steps.  st = [deck, players]
RECURSIVE DealLoop(_, _)
DealLoop(st, k) ==
    IF k >= 2 * Len(PLAYER_ORDER) * 4 THEN st
    ELSE LET player == PLAYER_ORDER[((k \div 4) % Len(PLAYER_ORDER)) + 1]
         IN  IF Len(st.deck) > 0
             THEN DealLoop([deck |-> SubSeq(st.deck, 1, Len(st.deck) - 1),
                            players |-> [st.players EXCEPT
                                ![player] = Append(@, st.deck[Len(st.deck)])]], k + 1)
             ELSE DealLoop(st, k + 1)

dealCards(deck) ==
    LET dealt == DealLoop([deck |-> deck, players |-> [p \in PlayerSet |-> <<>>]], 0).players
    IN  [p \in PlayerSet |-> Sort(dealt[p], HandCompare)]

DEFAULT_CONFIG ==
    [mustFollowSuit |-> TRUE,
     mustTrumpWhenVoid |-> TRUE,
     overtrumpRequired |-> FALSE,
     declarationsEnabled |-> TRUE,
     lastTrickBonus |-> TRUE,
     matchTargetScore |-> 1001]

EmptyTrick == [cards |-> <<>>, winner |-> Null, points |-> 0]

createInitialState(config, seed) ==
    LET deck == generateDeck(seed)
        hands == dealCards(deck)
        dealtCards == UNION {{cardToString(c) : c \in SeqToSet(hands[p])} : p \in PlayerSet}
        NotDealt(card) == cardToString(card) \notin dealtCards
        remainingDeck == SelectSeq(deck, NotDealt)
        talon == Slice(remainingDeck, -2, Len(remainingDeck))
        dealer == "south"
    IN  [phase |-> "bidding",
         deck |-> Slice(remainingDeck, 0, -2),
         players |-> [p \in PlayerSet |->
                        [id |-> p, team |-> getPlayerTeam(p), hand |-> hands[p],
                         isDeclarer |-> FALSE]],
         currentPlayer |-> getNextPlayer(dealer),
         declarer |-> Null,
         trump |-> Null,
         currentTrick |-> EmptyTrick,
         tricks |-> <<>>,
         currentBid |-> NullBid,
         bids |-> <<>>,
         declarations |-> <<>>,
         handScores |-> [team1 |-> 0, team2 |-> 0],
         matchScores |-> [team1 |-> 0, team2 |-> 0],
         events |-> <<>>,
         config |-> config,
         dealer |-> dealer,
         talon |-> talon]

(***************************************************************************)
(* Trick evaluation and legality (engine/rules.ts)                         *)
(***************************************************************************)
isTrump(card, trump) == card.suit = trump

\* cardBeats with the last rank comparison made without the test for the suit
cardBeatsAnySuit(card, leadCard, trump, isFirstTrump) ==
    LET cardIsTrump == isTrump(card, trump)
        leadIsTrump == isTrump(leadCard, trump)
    IN  IF trump = Null
        THEN card.suit = leadCard.suit /\ getRankIndex(card.rank) > getRankIndex(leadCard.rank)
        ELSE IF cardIsTrump /\ ~leadIsTrump THEN TRUE
        ELSE IF ~cardIsTrump /\ leadIsTrump THEN FALSE
        ELSE IF cardIsTrump /\ leadIsTrump
             THEN (IF isFirstTrump THEN TRUE
                   ELSE getRankIndex(card.rank) > getRankIndex(leadCard.rank))
        ELSE getRankIndex(card.rank) > getRankIndex(leadCard.rank)

cardBeats(card, leadCard, trump, isFirstTrump) ==
    LET cardIsTrump == isTrump(card, trump)
        leadIsTrump == isTrump(leadCard, trump)
    IN  IF trump = Null
        THEN card.suit = leadCard.suit /\ getRankIndex(card.rank) > getRankIndex(leadCard.rank)
        ELSE IF cardIsTrump /\ ~leadIsTrump THEN TRUE
        ELSE IF ~cardIsTrump /\ leadIsTrump THEN FALSE
        ELSE IF cardIsTrump /\ leadIsTrump
             THEN (IF isFirstTrump THEN TRUE
                   ELSE getRankIndex(card.rank) > getRankIndex(leadCard.rank))
        ELSE IF card.suit = leadCard.suit
             THEN getRankIndex(card.rank) > getRankIndex(leadCard.rank)
        ELSE FALSE

\* getCardsOfSuit that keeps the whole hand once the hand holds the suit
getCardsOfSuitLoose(hand, suit) ==
    IF \E i \in 1..Len(hand) : hand[i].suit = suit THEN hand ELSE <<>>

getCardsOfSuit(hand, suit) == LET Keep(card) == card.suit = suit IN SelectSeq(hand, Keep)

getTrumpCards(hand, trump) == LET Keep(card) == card.suit = trump IN SelectSeq(hand, Keep)

\* the trump-in-trick test answering yes for every trick
TrumpInTrickAlways(trick, trump) == TRUE

\* .some(c => c.card.suit === state.trump) over the cards of a trick
TrumpInTrick(trick, trump) ==
    \E i \in 1..Len(trick.cards) : trick.cards[i].card.suit = trump

\* the entries of Trick.cards
PlayedCardSet == [playerId : PlayerSet, card : AllCards]

\* comparator (a, b) => getRankIndex(b.card.rank) - getRankIndex(a.card.rank)
PlayedRankDesc[a \in PlayedCardSet, b \in PlayedCardSet] ==
    getRankIndex(b.card.rank) - getRankIndex(a.card.rank)

\* VoidInLeadSuit without the test trumpCards.length > 0
VoidInLeadSuitUnchecked(state, hand) ==
    IF TrumpInTrick(state.currentTrick, state.trump)
    THEN getTrumpCards(hand, state.trump)
    ELSE hand

\* VoidInLeadSuit that never reads config.overtrumpRequired
VoidInLeadSuitNoOvertrump(state, hand) ==
    IF TrumpInTrick(state.currentTrick, state.trump)
            /\ Len(getTrumpCards(hand, state.trump)) > 0
    THEN getTrumpCards(hand, state.trump)
    ELSE hand

\* legalMoves for a seat without a card of the lead suit ("No cards of lead suit")
VoidInLeadSuit(state, hand) ==
    LET currentTrick == state.currentTrick
        trumpCards == getTrumpCards(hand, state.trump)
        IsTrumpPlay(c) == c.card.suit = state.trump
        trumpsPlayed == Sort(SelectSeq(currentTrick.cards, IsTrumpPlay), PlayedRankDesc)
        Higher(c) == getRankIndex(c.rank) > getRankIndex(trumpsPlayed[1].card.rank)
        higherTrumps == IF Len(trumpsPlayed) > 0 THEN SelectSeq(trumpCards, Higher) ELSE <<>>
    IN  IF TrumpInTrick(currentTrick, state.trump) /\ Len(trumpCards) > 0
        THEN (IF state.config.overtrumpRequired
              THEN (IF Len(trumpsPlayed) > 0 /\ Len(higherTrumps) > 0
                    THEN higherTrumps ELSE trumpCards)
              ELSE trumpCards)
        ELSE hand

legalMoves(state, playerId) ==
    LET hand == state.players[playerId].hand
        currentTrick == state.currentTrick
    IN  IF state.trump = Null THEN hand
        ELSE IF Len(currentTrick.cards) = 0 THEN hand
        ELSE
          LET leadCard == currentTrick.cards[1].card
              leadSuit == leadCard.suit
              cardsOfLeadSuit == getCardsOfSuit(hand, leadSuit)
          IN  IF Len(cardsOfLeadSuit) > 0 THEN cardsOfLeadSuit
              ELSE VoidInLeadSuit(state, hand)

\* The loop of evaluateTrick from index i (1-based): best = [card, player, isFirstTrump]
RECURSIVE EvaluateLoop(_, _, _, _)
EvaluateLoop(trick, trump, i, best) ==
    IF i > Len(trick.cards) THEN best
    ELSE LET currentCard == trick.cards[i].card
             currentPlayer == trick.cards[i].playerId
         IN  IF cardBeats(currentCard, best.card, trump, best.isFirstTrump)
             THEN EvaluateLoop(trick, trump, i + 1,
                    [card |-> currentCard,
                     player |-> currentPlayer,
                     isFirstTrump |-> IF currentCard.suit = trump /\ ~best.isFirstTrump
                                      THEN TRUE ELSE best.isFirstTrump])
             ELSE EvaluateLoop(trick, trump, i + 1, best)

\* throws 'Empty trick' on a trick without cards: EvaluateTrickThrows
EvaluateTrickThrows(trick) == Len(trick.cards) = 0

evaluateTrick(trick, trump) ==
    IF Len(trick.cards) = 1 THEN trick.cards[1].playerId
    ELSE EvaluateLoop(trick, trump, 2,
            [card |-> trick.cards[1].card,
             player |-> trick.cards[1].playerId,
             isFirstTrump |-> trick.cards[1].card.suit = trump]).player

RECURSIVE SumPoints(_, _)
SumPoints(cards, i) ==
    IF i > Len(cards) THEN 0 ELSE CARD_VALUES[cards[i].card.rank] + SumPoints(cards, i + 1)

scoreTrick(trick, trump) == SumPoints(trick.cards, 1)

(***************************************************************************)
(* Declarations and hand scoring (engine/rules.ts)                         *)
(***************************************************************************)
\* comparator (a, b) => getRankIndex(a.rank) - getRankIndex(b.rank)
RankAsc[a \in AllCards, b \in AllCards] ==
    getRankIndex(a.rank) - getRankIndex(b.rank)

\* inner loop of checkDeclarations: the value of `consecutive` for start index j
\* (1-based), counting from the running value n
RECURSIVE Consecutive(_, _, _)
Consecutive(suitCards, j, n) ==
    IF j >= Len(suitCards) THEN n
    ELSE IF getRankIndex(suitCards[j + 1].rank) = getRankIndex(suitCards[j].rank) + 1
         THEN Consecutive(suitCards, j + 1, n + 1)
         ELSE n

\* the declarations pushed for start index i (1-based) of one suit
RunDeclaration(suitCards, i, playerId) ==
    LET consecutive == Consecutive(suitCards, i, 1)
    IN  IF consecutive >= 5
        THEN <<[type |-> "quint", playerId |-> playerId,
                cards |-> Slice(suitCards, i - 1, i - 1 + 5), points |-> 100]>>
        ELSE IF consecutive >= 4
        THEN <<[type |-> "quarte", playerId |-> playerId,
                cards |-> Slice(suitCards, i - 1, i - 1 + 4), points |-> 50]>>
        ELSE IF consecutive >= 3
        THEN <<[type |-> "tierce", playerId |-> playerId,
                cards |-> Slice(suitCards, i - 1, i - 1 + 3), points |-> 20]>>
        ELSE <<>>

RECURSIVE SuitRuns(_, _, _)
SuitRuns(suitCards, i, playerId) ==
    IF i > Len(suitCards) THEN <<>>
    ELSE RunDeclaration(suitCards, i, playerId) \o SuitRuns(suitCards, i + 1, playerId)

RECURSIVE AllRuns(_, _, _)
AllRuns(hand, k, playerId) ==
    IF k > Len(SUITS) THEN <<>>
    ELSE SuitRuns(Sort(getCardsOfSuit(hand, SUITS[k]), RankAsc), 1, playerId)
            \o AllRuns(hand, k + 1, playerId)

\* checkDeclarations with the King and the Queen looked for in the whole hand
checkDeclarationsAnySuit(state, playerId) ==
    IF ~state.config.declarationsEnabled \/ state.trump = Null THEN <<>>
    ELSE
      LET hand == state.players[playerId].hand
          hasK == \E i \in 1..Len(hand) : hand[i].rank = "K"
          hasQ == \E i \in 1..Len(hand) : hand[i].rank = "Q"
          IsKQ(c) == c.rank = "K" \/ c.rank = "Q"
          bela == IF hasK /\ hasQ
                  THEN <<[type |-> "bela", playerId |-> playerId,
                          cards |-> SelectSeq(hand, IsKQ), points |-> 20]>>
                  ELSE <<>>
      IN  bela \o AllRuns(hand, 1, playerId)

checkDeclarations(state, playerId) ==
    IF ~state.config.declarationsEnabled \/ state.trump = Null THEN <<>>
    ELSE
      LET hand == state.players[playerId].hand
          trumpCards == getTrumpCards(hand, state.trump)
          hasK == \E i \in 1..Len(trumpCards) : trumpCards[i].rank = "K"
          hasQ == \E i \in 1..Len(trumpCards) : trumpCards[i].rank = "Q"
          IsKQ(c) == c.rank = "K" \/ c.rank = "Q"
          bela == IF hasK /\ hasQ
                  THEN <<[type |-> "bela", playerId |-> playerId,
                          cards |-> SelectSeq(trumpCards, IsKQ), points |-> 20]>>
                  ELSE <<>>
      IN  bela \o AllRuns(hand, 1, playerId)

\* sum of trick.points over the tricks won by a seat of `team`
RECURSIVE TeamTrickPoints(_, _, _)
TeamTrickPoints(tricks, i, team) ==
    IF i > Len(tricks) THEN 0
    ELSE (IF getPlayerTeam(tricks[i].winner) = team THEN tricks[i].points ELSE 0)
            + TeamTrickPoints(tricks, i + 1, team)

RECURSIVE TeamDeclarationPoints(_, _, _)
TeamDeclarationPoints(decls, i, team) ==
    IF i > Len(decls) THEN 0
    ELSE (IF getPlayerTeam(decls[i].playerId) = team THEN decls[i].points ELSE 0)
            + TeamDeclarationPoints(decls, i + 1, team)

contractThreshold == 162
ContractBonusPoints == 90
LastTrickBonusPoints == 10

\* endOfHandScoring with the contract made when the declarer's team has more
\* points than the other team
endOfHandScoringMajority(state) ==
    IF state.trump = Null \/ state.declarer = Null
    THEN [handScores |-> state.handScores, matchScores |-> state.matchScores,
          contractBonus |-> 0]
    ELSE
      LET lastTrickWinner == state.tricks[Len(state.tricks)].winner
          LastBonus(team) ==
              IF state.config.lastTrickBonus /\ getPlayerTeam(lastTrickWinner) = team
              THEN LastTrickBonusPoints ELSE 0
          team1Points == TeamTrickPoints(state.tricks, 1, "team1") + LastBonus("team1")
                            + TeamDeclarationPoints(state.declarations, 1, "team1")
          team2Points == TeamTrickPoints(state.tricks, 1, "team2") + LastBonus("team2")
                            + TeamDeclarationPoints(state.declarations, 1, "team2")
          declarerTeam == getPlayerTeam(state.declarer)
          team1MadeContract == IF declarerTeam = "team1"
                               THEN team1Points > team2Points
                               ELSE team2Points > team1Points
          contractBonus == IF team1MadeContract THEN ContractBonusPoints ELSE 0
          newHandScores ==
              [team1 |-> team1Points + (IF team1MadeContract THEN contractBonus ELSE 0),
               team2 |-> team2Points + (IF team1MadeContract THEN 0 ELSE contractBonus)]
          newMatchScores ==
              [team1 |-> state.matchScores.team1 + newHandScores.team1,
               team2 |-> state.matchScores.team2 + newHandScores.team2]
      IN  [handScores |-> newHandScores, matchScores |-> newMatchScores,
           contractBonus |-> contractBonus]

endOfHandScoring(state) ==
    IF state.trump = Null \/ state.declarer = Null
    THEN [handScores |-> state.handScores, matchScores |-> state.matchScores,
          contractBonus |-> 0]
    ELSE
      LET lastTrickWinner == state.tricks[Len(state.tricks)].winner
          LastBonus(team) ==
              IF state.config.lastTrickBonus /\ getPlayerTeam(lastTrickWinner) = team
              THEN LastTrickBonusPoints ELSE 0
          team1Points == TeamTrickPoints(state.tricks, 1, "team1") + LastBonus("team1")
                            + TeamDeclarationPoints(state.declarations, 1, "team1")
          team2Points == TeamTrickPoints(state.tricks, 1, "team2") + LastBonus("team2")
                            + TeamDeclarationPoints(state.declarations, 1, "team2")
          declarerTeam == getPlayerTeam(state.declarer)
          team1MadeContract == IF declarerTeam = "team1"
                               THEN team1Points > contractThreshold
                               ELSE team2Points > contractThreshold
          contractBonus == IF team1MadeContract THEN ContractBonusPoints ELSE 0
          newHandScores ==
              [team1 |-> team1Points + (IF team1MadeContract THEN contractBonus ELSE 0),
               team2 |-> team2Points + (IF team1MadeContract THEN 0 ELSE contractBonus)]
          newMatchScores ==
              [team1 |-> state.matchScores.team1 + newHandScores.team1,
               team2 |-> state.matchScores.team2 + newHandScores.team2]
      IN  [handScores |-> newHandScores, matchScores |-> newMatchScores,
           contractBonus |-> contractBonus]

isGameOver(state) ==
    IF state.phase # "scoring" THEN FALSE
    ELSE \/ state.matchScores.team1 >= state.config.matchTargetScore
         \/ state.matchScores.team2 >= state.config.matchTargetScore

(***************************************************************************)
(* Transitions (engine/rules.ts).  Each takes a state and returns the new  *)
(* state; the JSON round trip that copies the state is the identity on     *)
(* these values.                                                           *)
(***************************************************************************)
Event(type, playerId, data) == [type |-> type, playerId |-> playerId, data |-> data]

\* player.hand.findIndex(c => c.suit === card.suit && c.rank === card.rank)
HandIndex(hand, card) == IndexOf(hand, card)

\* splice that leaves the card in the hand
RemoveAtKeep(hand, index) == hand

\* hand.splice(index, 1) for a 0-based index
RemoveAt(hand, index) ==
    SubSeq(hand, 1, index) \o SubSeq(hand, index + 2, Len(hand))

\* applyMove throws when the card is not in the hand of move.playerId
ApplyMoveThrows(state, move) == HandIndex(state.players[move.playerId].hand, move.card) = -1

\* the trick-completion branch without the reset of currentTrick
CompleteTrickNoReset(s1, move) ==
    IF Len(s1.currentTrick.cards) = 4
    THEN LET winner == evaluateTrick(s1.currentTrick, s1.trump)
             points == scoreTrick(s1.currentTrick, s1.trump)
             done == [s1.currentTrick EXCEPT !.winner = winner, !.points = points]
         IN  [s1 EXCEPT
                !.tricks = Append(@, done),
                !.events = Append(@, Event("trick_complete", Null,
                                           [winner |-> winner, points |-> points])),
                !.currentTrick = done,
                !.currentPlayer = winner]
    ELSE [s1 EXCEPT !.currentPlayer = getNextPlayer(move.playerId)]

\* the trick-completion branch with the turn passed on in rotation
CompleteTrickNextLeads(s1, move) ==
    IF Len(s1.currentTrick.cards) = 4
    THEN LET winner == evaluateTrick(s1.currentTrick, s1.trump)
             points == scoreTrick(s1.currentTrick, s1.trump)
             done == [s1.currentTrick EXCEPT !.winner = winner, !.points = points]
         IN  [s1 EXCEPT
                !.tricks = Append(@, done),
                !.events = Append(@, Event("trick_complete", Null,
                                           [winner |-> winner, points |-> points])),
                !.currentTrick = EmptyTrick,
                !.currentPlayer = getNextPlayer(move.playerId)]
    ELSE [s1 EXCEPT !.currentPlayer = getNextPlayer(move.playerId)]

\* the trick-completion branch without the trick_complete event
CompleteTrickUnlogged(s1, move) ==
    IF Len(s1.currentTrick.cards) = 4
    THEN LET winner == evaluateTrick(s1.currentTrick, s1.trump)
             points == scoreTrick(s1.currentTrick, s1.trump)
             done == [s1.currentTrick EXCEPT !.winner = winner, !.points = points]
         IN  [s1 EXCEPT
                !.tricks = Append(@, done),
                !.currentTrick = EmptyTrick,
                !.currentPlayer = winner]
    ELSE [s1 EXCEPT !.currentPlayer = getNextPlayer(move.playerId)]

\* applyMove after the card, the trick and the play_card event are updated: the
\* trick-completion branch
CompleteTrick(s1, move) ==
    IF Len(s1.currentTrick.cards) = 4
    THEN LET winner == evaluateTrick(s1.currentTrick, s1.trump)
             points == scoreTrick(s1.currentTrick, s1.trump)
             done == [s1.currentTrick EXCEPT !.winner = winner, !.points = points]
         IN  [s1 EXCEPT
                !.tricks = Append(@, done),
                !.events = Append(@, Event("trick_complete", Null,
                                           [winner |-> winner, points |-> points])),
                !.currentTrick = EmptyTrick,
                !.currentPlayer = winner]
    ELSE [s1 EXCEPT !.currentPlayer = getNextPlayer(move.playerId)]

\* applyMove without its last block: the hand is never over
FinishHandNever(s2, move) == s2

\* applyMove's last block: "hand is over" when the mover's hand is empty
FinishHand(s2, move) ==
    IF Len(s2.players[move.playerId].hand) = 0 /\ s2.phase = "play"
    THEN LET scores == endOfHandScoring([s2 EXCEPT !.phase = "scoring"])
         IN  [s2 EXCEPT
                !.phase = "scoring",
                !.handScores = scores.handScores,
                !.matchScores = scores.matchScores,
                !.events = Append(@, Event("hand_complete", Null, scores))]
    ELSE s2

\* applyMove with the declarations computed again from the hands left
applyMoveRedeclare(state, move) ==
    LET cardIndex == HandIndex(state.players[move.playerId].hand, move.card)
        s1 == [state EXCEPT
                !.players[move.playerId].hand = RemoveAt(@, cardIndex),
                !.currentTrick.cards = Append(@, [playerId |-> move.playerId,
                                                  card |-> move.card]),
                !.events = Append(@, Event("play_card", move.playerId, move.card))]
        s2 == FinishHand(CompleteTrick(s1, move), move)
    IN  [s2 EXCEPT !.declarations =
            checkDeclarations(s2, PLAYER_ORDER[1]) \o checkDeclarations(s2, PLAYER_ORDER[2])
            \o checkDeclarations(s2, PLAYER_ORDER[3]) \o checkDeclarations(s2, PLAYER_ORDER[4])]

applyMove(state, move) ==
    LET cardIndex == HandIndex(state.players[move.playerId].hand, move.card)
        s1 == [state EXCEPT
                !.players[move.playerId].hand = RemoveAt(@, cardIndex),
                !.currentTrick.cards = Append(@, [playerId |-> move.playerId,
                                                  card |-> move.card]),
                !.events = Append(@, Event("play_card", move.playerId, move.card))]
    IN  FinishHand(CompleteTrick(s1, move), move)

\* `Card ${cardToString(move.card)} not in ${move.playerId}'s hand`
ApplyMoveError(move) ==
    "Card " \o cardToString(move.card) \o " not in " \o move.playerId \o "'s hand"

\* a call of applyMove that changes the caller's state before it throws
ApplyMoveResultInPlace(state, move) ==
    IF ApplyMoveThrows(state, move)
    THEN [state |-> [state EXCEPT
                        !.currentTrick.cards = Append(@, [playerId |-> move.playerId,
                                                          card |-> move.card])],
          error |-> ApplyMoveError(move)]
    ELSE [state |-> applyMove(state, move), error |-> Null]

\* a call of applyMove as its caller sees it: the state the caller holds after
\* the call and the message of the Error thrown (Null when the call returned).
\* The function works on a copy of its argument and throws before it changes
\* the copy; a caller (App) stores the result only when the call returned.
ApplyMoveResult(state, move) ==
    IF ApplyMoveThrows(state, move)
    THEN [state |-> state, error |-> ApplyMoveError(move)]
    ELSE [state |-> applyMove(state, move), error |-> Null]

\* the loop over PLAYER_ORDER that appends every seat's declarations
RECURSIVE DeclareAll(_, _)
DeclareAll(state, k) ==
    IF k > Len(PLAYER_ORDER) THEN <<>>
    ELSE checkDeclarations(state, PLAYER_ORDER[k]) \o DeclareAll(state, k + 1)

WithDeclarations(state) ==
    IF state.config.declarationsEnabled
    THEN [state EXCEPT !.declarations = @ \o DeclareAll(state, 1)]
    ELSE state

\* applyBid without the assignment players[bid.playerId].isDeclarer = true
applyBidUnmarked(state, bid) ==
    LET s1 == [state EXCEPT
                !.bids = Append(@, bid),
                !.currentBid = bid,
                !.declarer = bid.playerId,
                !.trump = bid.suit,
                !.events = Append(@, Event("bid", bid.playerId, bid))]
        s2 == IF Len(s1.talon) > 0
              THEN [s1 EXCEPT !.players[bid.playerId].hand = @ \o s1.talon,
                              !.talon = <<>>]
              ELSE s1
        s3 == [s2 EXCEPT !.phase = "play", !.currentPlayer = bid.playerId]
    IN  WithDeclarations(s3)

applyBid(state, bid) ==
    LET s1 == [state EXCEPT
                !.bids = Append(@, bid),
                !.currentBid = bid,
                !.declarer = bid.playerId,
                !.trump = bid.suit,
                !.players[bid.playerId].isDeclarer = TRUE,
                !.events = Append(@, Event("bid", bid.playerId, bid))]
        s2 == IF Len(s1.talon) > 0
              THEN [s1 EXCEPT !.players[bid.playerId].hand = @ \o s1.talon,
                              !.talon = <<>>]
              ELSE s1
        s3 == [s2 EXCEPT !.phase = "play", !.currentPlayer = bid.playerId]
    IN  WithDeclarations(s3)

\* events.filter(e => e.type === 'pass').length
CountPasses(events) ==
    Cardinality({i \in 1..Len(events) : events[i].type = "pass"})

\* applyPass without the push of the pass event
applyPassUnlogged(state, playerId) ==
    LET s1 == state
    IN  IF Len(s1.talon) > 0
        THEN [s1 EXCEPT !.currentPlayer = getNextPlayer(playerId)]
        ELSE IF s1.currentBid # NullBid
        THEN (IF CountPasses(Slice(s1.events, -4, Len(s1.events))) >= 3
              THEN [s1 EXCEPT !.phase = "play", !.currentPlayer = getNextPlayer(s1.dealer)]
              ELSE [s1 EXCEPT !.currentPlayer = getNextPlayer(playerId)])
        ELSE (IF CountPasses(s1.events) >= 3
              THEN [s1 EXCEPT !.currentPlayer = s1.dealer, !.phase = "dealerChoice"]
              ELSE [s1 EXCEPT !.currentPlayer = getNextPlayer(playerId)])

\* applyPass without the test of the talon
applyPassTalonIgnored(state, playerId) ==
    LET s1 == [state EXCEPT !.events = Append(@, Event("pass", playerId, Null))]
    IN  IF s1.currentBid # NullBid
        THEN (IF CountPasses(Slice(s1.events, -4, Len(s1.events))) >= 3
              THEN [s1 EXCEPT !.phase = "play", !.currentPlayer = getNextPlayer(s1.dealer)]
              ELSE [s1 EXCEPT !.currentPlayer = getNextPlayer(playerId)])
        ELSE (IF CountPasses(s1.events) >= 3
              THEN [s1 EXCEPT !.currentPlayer = s1.dealer, !.phase = "dealerChoice"]
              ELSE [s1 EXCEPT !.currentPlayer = getNextPlayer(playerId)])

applyPass(state, playerId) ==
    LET s1 == [state EXCEPT !.events = Append(@, Event("pass", playerId, Null))]
    IN  IF Len(s1.talon) > 0
        THEN [s1 EXCEPT !.currentPlayer = getNextPlayer(playerId)]
        ELSE IF s1.currentBid # NullBid
        THEN (IF CountPasses(Slice(s1.events, -4, Len(s1.events))) >= 3
              THEN [s1 EXCEPT !.phase = "play", !.currentPlayer = getNextPlayer(s1.dealer)]
              ELSE [s1 EXCEPT !.currentPlayer = getNextPlayer(playerId)])
        ELSE (IF CountPasses(s1.events) >= 3
              THEN [s1 EXCEPT !.currentPlayer = s1.dealer, !.phase = "dealerChoice"]
              ELSE [s1 EXCEPT !.currentPlayer = getNextPlayer(playerId)])

\* applyDealerChoice without the assignment declarer = dealer
applyDealerChoiceNoDeclarer(state, suit) ==
    LET bid == [suit |-> suit, playerId |-> state.dealer, level |-> 1]
        s1 == [state EXCEPT
                !.bids = Append(@, bid),
                !.currentBid = bid,
                !.trump = suit,
                !.players[state.dealer].isDeclarer = TRUE,
                !.events = Append(@, Event("bid", state.dealer, bid)),
                !.phase = "play",
                !.currentPlayer = state.dealer]
    IN  WithDeclarations(s1)

applyDealerChoice(state, suit) ==
    LET bid == [suit |-> suit, playerId |-> state.dealer, level |-> 1]
        s1 == [state EXCEPT
                !.bids = Append(@, bid),
                !.currentBid = bid,
                !.declarer = state.dealer,
                !.trump = suit,
                !.players[state.dealer].isDeclarer = TRUE,
                !.events = Append(@, Event("bid", state.dealer, bid)),
                !.phase = "play",
                !.currentPlayer = state.dealer]
    IN  WithDeclarations(s1)

(***************************************************************************)
(* BotLevel1 (bots/index.ts): the bot App creates for every seat           *)
(***************************************************************************)
\* [...cards].sort(by ascending rank)[0]: the first card of lowest rank
LowestRank(cards) == Sort(cards, RankAsc)[1]

\* Object.entries(suitCounts): the suits of `cards` in order of first occurrence
RECURSIVE SuitsInOrder(_, _)
SuitsInOrder(cards, seen) ==
    IF cards = <<>> THEN seen
    ELSE SuitsInOrder(Tail(cards),
            IF IndexOf(seen, Head(cards).suit) = -1 THEN Append(seen, Head(cards).suit)
            ELSE seen)

CountSuit(cards, suit) == Len(getCardsOfSuit(cards, suit))

\* the loop `if (count > maxCount)` over the entries: first suit of greatest count
RECURSIVE LongestSuitLoop(_, _, _, _, _)
LongestSuitLoop(cards, suits, k, longestSuit, maxCount) ==
    IF k > Len(suits) THEN longestSuit
    ELSE IF CountSuit(cards, suits[k]) > maxCount
         THEN LongestSuitLoop(cards, suits, k + 1, suits[k], CountSuit(cards, suits[k]))
         ELSE LongestSuitLoop(cards, suits, k + 1, longestSuit, maxCount)

chooseLead(hand, legal, trump) ==
    IF trump = Null THEN legal[1]
    ELSE LET trumps == getTrumpCards(legal, trump)
         IN  IF Len(trumps) > 0 THEN LowestRank(trumps)
             ELSE LET longestSuit == LongestSuitLoop(legal, SuitsInOrder(legal, <<>>), 1,
                                                     legal[1].suit, 0)
                  IN  LowestRank(getCardsOfSuit(legal, longestSuit))

cardCanWin(card, leadCard, trump, isTrumpInTrick, trick) ==
    IF card.suit = trump /\ ~isTrumpInTrick THEN TRUE
    ELSE IF card.suit # trump /\ isTrumpInTrick THEN FALSE
    ELSE IF card.suit = leadCard.suit
         THEN \A i \in 1..Len(trick.cards) :
                trick.cards[i].card.suit = card.suit
                    => getRankIndex(card.rank) > getRankIndex(trick.cards[i].card.rank)
    ELSE FALSE

\* the strength loop shared by chooseBid and chooseDealerChoice: the sum of the
\* rank indices of the hand's cards of a suit
RECURSIVE SumRankIndex(_, _)
SumRankIndex(cards, i) ==
    IF i > Len(cards) THEN 0 ELSE getRankIndex(cards[i].rank) + SumRankIndex(cards, i + 1)

SuitStrength(hand, suit) == SumRankIndex(getCardsOfSuit(hand, suit), 1)

\* for (const suit of suits) if (strength > maxStrength) ...: best = [suit, strength]
RECURSIVE BestSuitLoop(_, _, _)
BestSuitLoop(hand, k, best) ==
    IF k > Len(SUITS) THEN best
    ELSE IF SuitStrength(hand, SUITS[k]) > best.strength
         THEN BestSuitLoop(hand, k + 1,
                [suit |-> SUITS[k], strength |-> SuitStrength(hand, SUITS[k])])
         ELSE BestSuitLoop(hand, k + 1, best)

\* BotLevel1.chooseBid: the suit bid, or "pass"
chooseBid(state, playerId) ==
    LET hand == state.players[playerId].hand
        best == BestSuitLoop(hand, 1, [suit |-> Null, strength |-> 0])
    IN  IF best.suit # Null /\ CountSuit(hand, best.suit) >= 3 /\ best.strength >= 10
        THEN best.suit ELSE "pass"

\* BotLevel1.chooseDealerChoice
chooseDealerChoice(state, playerId) ==
    BestSuitLoop(state.players[playerId].hand, 1, [suit |-> "hearts", strength |-> 0]).suit

\* BotLevel1.chooseMove(state).card for the bot of seat playerId; it throws when
\* the seat has no legal move
chooseMove(state, playerId) ==
    LET hand == state.players[playerId].hand
        legal == legalMoves(state, playerId)
        trick == state.currentTrick
    IN  IF Len(trick.cards) = 0 THEN chooseLead(hand, legal, state.trump)
        ELSE
          LET leadCard == trick.cards[1].card
              isTrumpInTrick == TrumpInTrick(trick, state.trump)
              Wins(card) == cardCanWin(card, leadCard, state.trump, isTrumpInTrick, trick)
              canWin == SelectSeq(legal, Wins)
              sorted == Sort(legal, RankAsc)
              IsTrumpCard(c) == c.suit = state.trump
              NotTrumpCard(c) == c.suit # state.trump
              trumpCards == SelectSeq(sorted, IsTrumpCard)
              nonTrump == SelectSeq(sorted, NotTrumpCard)
          IN  IF Len(canWin) > 0 THEN LowestRank(canWin)
              ELSE IF Len(trumpCards) > 0 /\ isTrumpInTrick THEN trumpCards[1]
              ELSE IF Len(nonTrump) > 0 THEN nonTrump[1]
              ELSE sorted[1]

(***************************************************************************)
(* BotLevel2 and getHint (bots and analysis)                               *)
(***************************************************************************)
\* BotLevel2.getSequenceBonus: 5 for each neighbour of the card, among the
\* hand's cards of its suit sorted by rank, that is one rank away
getSequenceBonus(hand, card) ==
    LET sorted == Sort(getCardsOfSuit(hand, card.suit), RankAsc)
        cardIdx == CHOOSE i \in 1..Len(sorted) : sorted[i].rank = card.rank
        below == IF cardIdx > 1
                    /\ getRankIndex(sorted[cardIdx - 1].rank) = getRankIndex(card.rank) - 1
                 THEN 5 ELSE 0
        above == IF cardIdx < Len(sorted)
                    /\ getRankIndex(sorted[cardIdx + 1].rank) = getRankIndex(card.rank) + 1
                 THEN 5 ELSE 0
    IN  below + above

\* BotLevel2.canWin
canWin(card, leadCard, trump, isTrumpInTrick, trick) ==
    IF card.suit = trump /\ ~isTrumpInTrick THEN TRUE
    ELSE IF card.suit # trump /\ isTrumpInTrick THEN FALSE
    ELSE IF card.suit = leadCard.suit
         THEN \A i \in 1..Len(trick.cards) :
                trick.cards[i].card.suit = card.suit
                    => ~(getRankIndex(card.rank) <= getRankIndex(trick.cards[i].card.rank))
    ELSE FALSE

\* BotLevel2.countRemainingSuits(hand, playedCard)[suit]: the number of the
\* hand's other cards of the suit; 0 stands for undefined, the suit having no
\* entry in the counts
countRemainingSuits(hand, playedCard, suit) ==
    LET Other(c) == c # playedCard /\ c.suit = suit
    IN  Len(SelectSeq(hand, Other))

\* BotLevel2.evaluateMove
evaluateMove(state, playerId, card) ==
    LET trick == state.currentTrick
        hand == state.players[playerId].hand
        leading ==
            (IF card.suit = state.trump THEN 10 ELSE 0)
            + getSequenceBonus(hand, card)
            - getRankIndex(card.rank) * 2
        isTrumpInTrick == TrumpInTrick(trick, state.trump)
        following ==
            IF canWin(card, trick.cards[1].card, state.trump, isTrumpInTrick, trick)
            THEN 20 - getRankIndex(card.rank) * 3
            ELSE (IF ~isTrumpInTrick /\ card.suit = state.trump THEN 5 ELSE 0)
                 - getRankIndex(card.rank)
        remaining == countRemainingSuits(hand, card, card.suit)
        \* undefined <= 1 is false
        unguard == IF remaining # 0 /\ remaining <= 1 /\ card.suit # state.trump
                   THEN 5 ELSE 0
    IN  (IF Len(trick.cards) = 0 THEN leading ELSE following) - unguard

\* the loop of BotLevel2.chooseMove: best = [card, score, scored], bestScore
\* is -Infinity until a card is scored
RECURSIVE BestMoveLoop(_, _, _, _, _)
BestMoveLoop(state, playerId, legal, k, best) ==
    IF k > Len(legal) THEN best
    ELSE LET score == evaluateMove(state, playerId, legal[k])
         IN  IF ~best.scored \/ score > best.score
             THEN BestMoveLoop(state, playerId, legal, k + 1,
                               [card |-> legal[k], score |-> score, scored |-> TRUE])
             ELSE BestMoveLoop(state, playerId, legal, k + 1, best)

\* BotLevel2.chooseMove(state).card for the bot of seat playerId
chooseMove2(state, playerId) ==
    LET legal == legalMoves(state, playerId)
    IN  BestMoveLoop(state, playerId, legal, 1, [card |-> legal[1], score |-> 0, scored |-> FALSE]).card

\* getHint with the cards of the hand taken for the legal ones
getHintFromHand(state, playerId) ==
    Sort(state.players[playerId].hand, RankAsc)[1]

\* getHint(state, playerId).card
getHint(state, playerId) ==
    LET legal == legalMoves(state, playerId)
        trick == state.currentTrick
        IsTrumpCard(c) == c.suit = state.trump
        trumps == SelectSeq(legal, IsTrumpCard)
        leadCard == trick.cards[1].card
        isTrumpInTrick == TrumpInTrick(trick, state.trump)
        NoHigher(card) ==
            \A i \in 1..Len(trick.cards) :
                trick.cards[i].card.suit = card.suit
                    => ~(getRankIndex(trick.cards[i].card.rank) > getRankIndex(card.rank))
        Winning(card) ==
            IF card.suit = state.trump /\ ~isTrumpInTrick THEN TRUE
            ELSE IF card.suit # state.trump /\ isTrumpInTrick THEN FALSE
            ELSE IF card.suit = leadCard.suit
                    /\ getRankIndex(card.rank) > getRankIndex(leadCard.rank)
                 THEN NoHigher(card)
            ELSE FALSE
        winningCards == SelectSeq(legal, Winning)
    IN  IF Len(trick.cards) = 0
        THEN IF Len(trumps) > 0 THEN Sort(trumps, RankAsc)[1] ELSE Sort(legal, RankAsc)[1]
        ELSE IF Len(winningCards) > 0 THEN Sort(winningCards, RankAsc)[1]
        ELSE Sort(legal, RankAsc)[1]

(***************************************************************************)
(* The driver (App.tsx): seat south is the human, the other seats are bots.*)
(* Every handler acts for gameState.currentPlayer in the matching phase.   *)
(***************************************************************************)
HumanSeat == "south"

IdleTrickQ == [trick |-> EmptyTrick, trump |-> "hearts"]
IdleTrickOut == [done |-> FALSE, winner |-> Null]
\* the states createInitialState() can return, one per shuffle
InitialStates == [k \in 1..NumSeeds |-> createInitialState(DEFAULT_CONFIG, SeedOf(k))]

IdleLegalQ == [state |-> InitialStates[1], playerId |-> HumanSeat]
IdleLegalOut == [done |-> FALSE, cards |-> <<>>]

\* no direct call of a transition was made
IdleCall == [type |-> Null, playerId |-> Null, card |-> Null, suit |-> Null, error |-> Null,
             input |-> Null]

\* no timeout is pending
NoTimer == [pending |-> FALSE, state |-> Null]

QueriesIdle ==
    /\ lastCall = IdleCall
    /\ timer = NoTimer
    /\ trickQ = IdleTrickQ
    /\ trickOut = IdleTrickOut
    /\ legalQ = IdleLegalQ
    /\ legalOut = IdleLegalOut

Init ==
    /\ \E k \in 1..NumSeeds : gameState = InitialStates[k]
    /\ QueriesIdle

\* a seat bids a suit: handleBid for the human (any suit), the bidding effect for
\* a bot (the suit chooseBid returns)
Bid(suit) ==
    /\ gameState.phase = "bidding"
    /\ \/ gameState.currentPlayer = HumanSeat
       \/ chooseBid(gameState, gameState.currentPlayer) = suit
    /\ gameState' = applyBid(gameState,
            [suit |-> suit, playerId |-> gameState.currentPlayer, level |-> 1])
    /\ UNCHANGED <<trickQ, trickOut, legalQ, legalOut, lastCall, timer>>

\* a seat passes: handlePass for the human, the bidding effect for a bot whose
\* chooseBid returns 'pass'
Pass ==
    /\ gameState.phase = "bidding"
    /\ \/ gameState.currentPlayer = HumanSeat
       \/ chooseBid(gameState, gameState.currentPlayer) = "pass"
    /\ gameState' = applyPass(gameState, gameState.currentPlayer)
    /\ UNCHANGED <<trickQ, trickOut, legalQ, legalOut, lastCall, timer>>

\* the dealer picks the trump: handleDealerChoice for the human (any suit), the
\* effect for a bot (the suit chooseDealerChoice returns)
DealerChoice(suit) ==
    /\ gameState.phase = "dealerChoice"
    /\ \/ gameState.currentPlayer = HumanSeat
       \/ chooseDealerChoice(gameState, gameState.currentPlayer) = suit
    /\ gameState' = applyDealerChoice(gameState, suit)
    /\ UNCHANGED <<trickQ, trickOut, legalQ, legalOut, lastCall, timer>>

\* handleCardClick: the human plays a card of legalMoves(gameState, 'south')
CardClick(card) ==
    /\ gameState.phase = "play"
    /\ gameState.currentPlayer = HumanSeat
    /\ card \in SeqToSet(legalMoves(gameState, HumanSeat))
    /\ gameState' = applyMove(gameState, [playerId |-> HumanSeat, card |-> card])
    /\ UNCHANGED <<trickQ, trickOut, legalQ, legalOut, lastCall, timer>>

\* the bot effect: the bot of the current seat plays the card it chooses
BotMove ==
    /\ gameState.phase = "play"
    /\ gameState.currentPlayer # HumanSeat
    /\ gameState' = applyMove(gameState,
            [playerId |-> gameState.currentPlayer,
             card |-> chooseMove(gameState, gameState.currentPlayer)])
    /\ UNCHANGED <<trickQ, trickOut, legalQ, legalOut, lastCall, timer>>

\* handleNewGame: a fresh deal replaces the live state
NewGame(k) ==
    /\ gameState' = InitialStates[k]
    /\ UNCHANGED <<trickQ, trickOut, legalQ, legalOut, lastCall, timer>>

Next ==
    \/ \E suit \in SuitSet : Bid(suit)
    \/ Pass
    \/ \E suit \in SuitSet : DealerChoice(suit)
    \/ \E card \in AllCards : CardClick(card)
    \/ BotMove
    \/ \E k \in 1..NumSeeds : NewGame(k)

Spec == Init /\ [][Next]_vars

(***************************************************************************)
(* The driver on games created with declarationsEnabled = false, with and   *)
(* without the last-trick bonus.                                           *)
(***************************************************************************)
PlainConfigs ==
    {[DEFAULT_CONFIG EXCEPT !.declarationsEnabled = FALSE, !.lastTrickBonus = b] :
        b \in BOOLEAN}

PlainStates == {createInitialState(config, SeedOf(k)) : config \in PlainConfigs,
                                                       k \in 1..NumSeeds}

InitPlain ==
    /\ gameState \in PlainStates
    /\ QueriesIdle

\* handleNewGame on a game of the same configuration
NewGamePlain ==
    /\ gameState' \in {state \in PlainStates : state.config = gameState.config}
    /\ UNCHANGED <<trickQ, trickOut, legalQ, legalOut, lastCall, timer>>

NextPlain ==
    \/ \E suit \in SuitSet : Bid(suit)
    \/ Pass
    \/ \E suit \in SuitSet : DealerChoice(suit)
    \/ \E card \in AllCards : CardClick(card)
    \/ BotMove
    \/ NewGamePlain

SpecPlain == InitPlain /\ [][NextPlain]_vars

(***************************************************************************)
(* The driver with its timers (App.tsx).  The two bot effects have the     *)
(* dependencies [gameState.phase, gameState.currentPlayer, bots]: a render *)
(* in which neither changed runs no cleanup and no effect, so a pending    *)
(* timeout stays, and its callback works on the gameState of the render    *)
(* that set it.  A render in which one changed clears the pending timeout  *)
(* and sets a new one when it is a bot's turn.  A handler of the human     *)
(* works on the gameState of the last render.                              *)
(***************************************************************************)
EffectDeps(state) == <<state.phase, state.currentPlayer>>

\* the conditions of the two effects: a bot is to play, to bid or to choose
BotTurn(state) ==
    /\ state.phase \in {"play", "bidding", "dealerChoice"}
    /\ state.currentPlayer # HumanSeat

\* the pending timeout after the render of `new` that follows the render of
\* `old`, `pending` being the timeout left by the step that set the state
Render(old, new, pending) ==
    IF EffectDeps(new) = EffectDeps(old) THEN pending
    ELSE IF BotTurn(new) THEN [pending |-> TRUE, state |-> new]
    ELSE NoTimer

\* the first render: the effects run
Mount(state) == IF BotTurn(state) THEN [pending |-> TRUE, state |-> state] ELSE NoTimer

InitApp ==
    /\ \E k \in 1..NumSeeds : gameState = InitialStates[k]
    /\ lastCall = IdleCall
    /\ timer = Mount(gameState)
    /\ trickQ = IdleTrickQ
    /\ trickOut = IdleTrickOut
    /\ legalQ = IdleLegalQ
    /\ legalOut = IdleLegalOut

\* who may act now: the callback of the pending timeout, on the state it closed
\* over, and the human's handlers, on the live state when it is south's turn
Submitters ==
    (IF timer.pending THEN {[by |-> "timer", state |-> timer.state]} ELSE {})
    \cup (IF gameState.currentPlayer = HumanSeat
          THEN {[by |-> "human", state |-> gameState]} ELSE {})

\* setGameState(newState) by a submitter, the render and its effects
Commit(sub, type, card, suit, newState) ==
    /\ gameState' = newState
    /\ lastCall' = [type |-> type, playerId |-> sub.state.currentPlayer, card |-> card,
                    suit |-> suit, error |-> Null, input |-> sub.state]
    /\ timer' = Render(gameState, newState, IF sub.by = "timer" THEN NoTimer ELSE timer)
    /\ UNCHANGED <<trickQ, trickOut, legalQ, legalOut>>

\* handleBid, or the bidding timeout of a bot whose chooseBid returns a bid
SubmitBid(suit) ==
    \E sub \in Submitters :
        /\ sub.state.phase = "bidding"
        /\ sub.by = "timer" => chooseBid(sub.state, sub.state.currentPlayer) = suit
        /\ Commit(sub, "applyBid", Null, suit,
                  applyBid(sub.state, [suit |-> suit, playerId |-> sub.state.currentPlayer,
                                       level |-> 1]))

\* handlePass, or the bidding timeout of a bot whose chooseBid returns 'pass'
SubmitPass ==
    \E sub \in Submitters :
        /\ sub.state.phase = "bidding"
        /\ sub.by = "timer" => chooseBid(sub.state, sub.state.currentPlayer) = "pass"
        /\ Commit(sub, "applyPass", Null, Null,
                  applyPass(sub.state, sub.state.currentPlayer))

\* handleDealerChoice, or the dealer-choice timeout of a bot
SubmitDealerChoice(suit) ==
    \E sub \in Submitters :
        /\ sub.state.phase = "dealerChoice"
        /\ sub.by = "timer" => chooseDealerChoice(sub.state, sub.state.currentPlayer) = suit
        /\ Commit(sub, "applyDealerChoice", Null, suit, applyDealerChoice(sub.state, suit))

\* handleCardClick with a legal card, or the move timeout of a bot
SubmitMove(card) ==
    \E sub \in Submitters :
        /\ sub.state.phase = "play"
        /\ IF sub.by = "timer"
           THEN card = chooseMove(sub.state, sub.state.currentPlayer)
           ELSE card \in SeqToSet(legalMoves(sub.state, HumanSeat))
        /\ Commit(sub, "applyMove", card, Null,
                  applyMove(sub.state, [playerId |-> sub.state.currentPlayer, card |-> card]))

\* handleNewGame: setGameState(createInitialState()), the render and its effects
HandleNewGame(k) ==
    /\ gameState' = InitialStates[k]
    /\ lastCall' = [type |-> "handleNewGame", playerId |-> Null, card |-> Null,
                    suit |-> Null, error |-> Null, input |-> Null]
    /\ timer' = Render(gameState, InitialStates[k], timer)
    /\ UNCHANGED <<trickQ, trickOut, legalQ, legalOut>>

NextApp ==
    \/ \E suit \in SuitSet : SubmitBid(suit)
    \/ SubmitPass
    \/ \E suit \in SuitSet : SubmitDealerChoice(suit)
    \/ \E card \in AllCards : SubmitMove(card)
    \/ \E k \in 1..NumSeeds : HandleNewGame(k)

SpecApp == InitApp /\ [][NextApp]_vars

(***************************************************************************)
(* evaluateTrick as a function: every trick of four distinct cards drawn   *)
(* from TrickCards, played in rotation from any leader, under any trump.   *)
(***************************************************************************)
TrickSuits == {"hearts", "clubs", "spades"}
TrickRanks ==
    {RANK_ORDER[i] : i \in (Len(RANK_ORDER) - NumTrickRanks + 1)..Len(RANK_ORDER)}
TrickCards == [suit : TrickSuits, rank : TrickRanks]

\* the seat that plays the n-th card (1-based) of a trick led by `leader`
RECURSIVE SeatAfter(_, _)
SeatAfter(leader, n) == IF n <= 1 THEN leader ELSE getNextPlayer(SeatAfter(leader, n - 1))

PlayedBy(leader, cards) ==
    [i \in 1..Len(cards) |-> [playerId |-> SeatAfter(leader, i), card |-> cards[i]]]

InitTrick ==
    /\ lastCall = IdleCall
    /\ timer = NoTimer
    /\ gameState = InitialStates[1]
    /\ legalQ = IdleLegalQ
    /\ legalOut = IdleLegalOut
    /\ trickOut = IdleTrickOut
    /\ \E leader \in PlayerSet, trump \in SuitSet :
       \E c1 \in TrickCards :
       \E c2 \in TrickCards \ {c1} :
       \E c3 \in TrickCards \ {c1, c2} :
       \E c4 \in TrickCards \ {c1, c2, c3} :
          trickQ = [trick |-> [cards |-> PlayedBy(leader, <<c1, c2, c3, c4>>),
                               winner |-> Null, points |-> 0],
                    trump |-> trump]

EvaluateTrickCall ==
    /\ ~trickOut.done
    /\ ~EvaluateTrickThrows(trickQ.trick)
    /\ trickOut' = [done |-> TRUE, winner |-> evaluateTrick(trickQ.trick, trickQ.trump)]
    /\ UNCHANGED <<gameState, trickQ, legalQ, legalOut, lastCall, timer>>

NextTrick == EvaluateTrickCall

SpecTrick == InitTrick /\ [][NextTrick]_vars

(***************************************************************************)
(* legalMoves as a function: a seat's hand (kept in the order dealCards    *)
(* sorts it) and a trick of 0 to 3 cards, drawn from LegalCards, under any *)
(* trump of those suits, with overtrumpRequired and mustTrumpWhenVoid off   *)
(* and on.                                                                 *)
(***************************************************************************)
LegalSuits == {"hearts", "clubs", "spades"}
LegalRanks == {"9", "Q", "A"}
LegalCards == [suit : LegalSuits, rank : LegalRanks]
FirstLeader == "west"

\* the cards of a set in the order dealCards sorts a hand
HandOf(cards) ==
    [k \in 1..Cardinality(cards) |->
        CHOOSE c \in cards : Cardinality({d \in cards : HandCompare[d, c] < 0}) = k - 1]

\* sequences of n distinct cards of a set, n in 0..3
DistinctSeqs(cards) ==
    {<<>>}
    \cup {<<a>> : a \in cards}
    \cup {<<x[1], x[2]>> : x \in {y \in cards \X cards : y[1] # y[2]}}
    \cup {<<x[1], x[2], x[3]>> :
            x \in {y \in cards \X cards \X cards : y[1] # y[2] /\ y[1] # y[3] /\ y[2] # y[3]}}

\* a state of phase play in which `played` is on the table and the next seat
\* holds `hand`
PlayState(played, hand, trump, overtrump, mustTrump) ==
    LET seat == SeatAfter(FirstLeader, Len(played) + 1)
    IN  [InitialStates[1] EXCEPT
            !.phase = "play",
            !.trump = trump,
            !.declarer = FirstLeader,
            !.currentPlayer = seat,
            !.config.overtrumpRequired = overtrump,
            !.config.mustTrumpWhenVoid = mustTrump,
            !.currentTrick.cards = PlayedBy(FirstLeader, played),
            !.players = [p \in PlayerSet |->
                            [@[p] EXCEPT !.hand = IF p = seat THEN HandOf(hand) ELSE <<>>,
                                         !.isDeclarer = (p = FirstLeader)]]]

InitLegal ==
    /\ lastCall = IdleCall
    /\ timer = NoTimer
    /\ gameState = InitialStates[1]
    /\ trickQ = IdleTrickQ
    /\ trickOut = IdleTrickOut
    /\ legalOut = IdleLegalOut
    /\ \E played \in DistinctSeqs(LegalCards), trump \in LegalSuits,
          overtrump \in BOOLEAN, mustTrump \in BOOLEAN :
       \E hand \in SUBSET (LegalCards \ SeqToSet(played)) :
          /\ Cardinality(hand) \in 1..MaxHandSize
          /\ legalQ = [state |-> PlayState(played, hand, trump, overtrump, mustTrump),
                       playerId |-> SeatAfter(FirstLeader, Len(played) + 1)]

LegalMovesCall ==
    /\ ~legalOut.done
    /\ legalOut' = [done |-> TRUE, cards |-> legalMoves(legalQ.state, legalQ.playerId)]
    /\ UNCHANGED <<gameState, trickQ, trickOut, legalQ, lastCall, timer>>

NextLegal == LegalMovesCall

SpecLegal == InitLegal /\ [][NextLegal]_vars

(***************************************************************************)
(* The card choosers asked for a card on the states of SpecLegal with the  *)
(* default mustTrumpWhenVoid: each call is recorded in lastCall with the   *)
(* card it returned.                                                       *)
(***************************************************************************)
InitChoose ==
    /\ InitLegal
    /\ legalQ.state.config.mustTrumpWhenVoid = DEFAULT_CONFIG.mustTrumpWhenVoid

ChooserCall(type, card) ==
    /\ lastCall = IdleCall
    /\ lastCall' = [type |-> type, playerId |-> legalQ.playerId, card |-> card,
                    suit |-> Null, error |-> Null, input |-> Null]
    /\ UNCHANGED <<gameState, trickQ, trickOut, legalQ, legalOut, timer>>

BotLevel1Call == ChooserCall("BotLevel1.chooseMove", chooseMove(legalQ.state, legalQ.playerId))

BotLevel2Call == ChooserCall("BotLevel2.chooseMove", chooseMove2(legalQ.state, legalQ.playerId))

GetHintCall == ChooserCall("getHint", getHint(legalQ.state, legalQ.playerId))

NextChoose == BotLevel1Call \/ BotLevel2Call \/ GetHintCall

SpecChoose == InitChoose /\ [][NextChoose]_vars

(***************************************************************************)
(* The last applyMove of a hand, which calls endOfHandScoring: the state   *)
(* given holds NumScoreTricks completed tricks (endOfHandScoring reads     *)
(* their winner and points only), at most one declaration, any declarer,   *)
(* match scores of earlier hands, the default or a lower target score, and *)
(* the mover holds its last card, with the table empty or three cards on   *)
(* it.                                                                     *)
(***************************************************************************)
ScoreTrickPoints == {10, 66, 76}
ScoreTricks ==
    [1..NumScoreTricks -> [cards : {<<>>}, winner : PlayerSet, points : ScoreTrickPoints]]

ScoreDeclarationLists ==
    {<<>>}
    \cup {<<[type |-> "tierce", playerId |-> p, cards |-> <<>>, points |-> 20]>> : p \in PlayerSet}
    \cup {<<[type |-> "quint", playerId |-> p, cards |-> <<>>, points |-> 100]>> : p \in PlayerSet}

ScoreMatchScores == {[team1 |-> 0, team2 |-> 0], [team1 |-> 300, team2 |-> 120]}

\* config.matchTargetScore: the default and a target a match can reach here
ScoreTargets == {DEFAULT_CONFIG.matchTargetScore, 400}

ScoreLastCard == [suit |-> "clubs", rank |-> "7"]
ScoreTables ==
    {<<>>,
     <<[suit |-> "clubs", rank |-> "8"], [suit |-> "clubs", rank |-> "9"],
       [suit |-> "clubs", rank |-> "10"]>>}

ScoreState(tricks, decls, declarer, played, matchScores, target) ==
    LET bid == [suit |-> "hearts", playerId |-> declarer, level |-> 1]
    IN  [PlayState(played, {ScoreLastCard}, "hearts", FALSE, TRUE) EXCEPT
            !.tricks = tricks,
            !.declarations = decls,
            !.declarer = declarer,
            !.currentBid = bid,
            !.bids = <<bid>>,
            !.matchScores = matchScores,
            !.config.matchTargetScore = target,
            !.players = [p \in PlayerSet |-> [@[p] EXCEPT !.isDeclarer = (p = declarer)]]]

InitScore ==
    /\ QueriesIdle
    /\ \E tricks \in ScoreTricks, decls \in ScoreDeclarationLists, declarer \in PlayerSet,
          played \in ScoreTables, matchScores \in ScoreMatchScores,
          target \in ScoreTargets :
          gameState = ScoreState(tricks, decls, declarer, played, matchScores, target)

\* the seat to play plays its last card
PlayLastCard ==
    /\ gameState.phase = "play"
    /\ gameState' = applyMove(gameState,
            [playerId |-> gameState.currentPlayer,
             card |-> gameState.players[gameState.currentPlayer].hand[1]])
    /\ UNCHANGED <<trickQ, trickOut, legalQ, legalOut, lastCall, timer>>

NextScore == PlayLastCard

SpecScore == InitScore /\ [][NextScore]_vars

\* the same with north declarer, no declaration and an empty table; applyMove is
\* called as long as the seat to play holds a card
InitMatch ==
    /\ InitScore
    /\ gameState.declarer = "north"
    /\ gameState.declarations = <<>>
    /\ gameState.currentTrick.cards = <<>>

FairSpecMatch == InitMatch /\ [][NextScore]_vars /\ WF_vars(NextScore)

(***************************************************************************)
(* applyMove called directly: a state of phase play drawn from MoveCards   *)
(* in which a trick of diamonds is completed, the seat to play holds up to  *)
(* MaxHandSize cards and the other seats none, and a call for any seat     *)
(* with any card of MoveCards.                                             *)
(***************************************************************************)
MoveSuits == {"hearts", "clubs"}
MoveRanks == {"9", "10", "A"}
MoveCards == [suit : MoveSuits, rank : MoveRanks]

\* the completed trick: west led, south won with the 10
MoveTricks ==
    <<[cards |-> PlayedBy("west", [i \in 1..4 |-> [suit |-> "diamonds", rank |-> RANK_ORDER[i]]]),
       winner |-> "south",
       points |-> CARD_VALUES["10"]]>>

InitMove ==
    /\ QueriesIdle
    /\ \E played \in DistinctSeqs(MoveCards), trump \in MoveSuits :
       \E hand \in SUBSET (MoveCards \ SeqToSet(played)) :
          /\ Cardinality(hand) \in 1..MaxHandSize
          /\ gameState = [PlayState(played, hand, trump, FALSE, TRUE) EXCEPT
                            !.tricks = MoveTricks]

\* a transition that writes to the state it was given: const newState = state
CallInPlace(state, newState) == [input |-> newState, output |-> newState]

\* const newState = JSON.parse(JSON.stringify(state)): the transition writes to
\* the copy only; input is the caller's object as the call leaves it, output
\* the object returned
CallOnCopy(state, newState) == [input |-> state, output |-> newState]

ApplyMoveCall(playerId, card) ==
    /\ lastCall = IdleCall
    /\ LET move == [playerId |-> playerId, card |-> card]
           result == ApplyMoveResult(gameState, move)
           call == CallOnCopy(gameState, result.state)
       IN  /\ gameState' = call.output
           /\ lastCall' = [type |-> "applyMove", playerId |-> playerId, card |-> card,
                           suit |-> Null, error |-> result.error, input |-> call.input]
    /\ UNCHANGED <<trickQ, trickOut, legalQ, legalOut, timer>>

NextMove == \E playerId \in PlayerSet, card \in MoveCards : ApplyMoveCall(playerId, card)

SpecMove == InitMove /\ [][NextMove]_vars

(***************************************************************************)
(* The four transitions called directly, for any seat and with any card or *)
(* suit, on states the game reaches: a fresh deal, the dealer's choice     *)
(* after three passes, the play phase before and after the first card, and *)
(* a scored hand.                                                          *)
(***************************************************************************)
ApiBidding == InitialStates[1]

ApiDealerChoice ==
    applyPass(applyPass(applyPass(InitialStates[2], "west"), "north"), "east")

\* the first seat to speak bids what its bot chooses and is to lead
ApiLead ==
    applyBid(ApiBidding, [suit |-> chooseBid(ApiBidding, ApiBidding.currentPlayer),
                          playerId |-> ApiBidding.currentPlayer, level |-> 1])

BotCard(state) ==
    [playerId |-> state.currentPlayer, card |-> chooseMove(state, state.currentPlayer)]

ApiPlay == applyMove(ApiLead, BotCard(ApiLead))

\* the hand played to its end, every seat playing the card chooseMove returns
RECURSIVE PlayOut(_)
PlayOut(state) ==
    IF state.phase # "play" THEN state ELSE PlayOut(applyMove(state, BotCard(state)))

ApiScoring == PlayOut(ApiPlay)

ApiStates == {ApiBidding, ApiDealerChoice, ApiLead, ApiPlay, ApiScoring}

InitApi ==
    /\ QueriesIdle
    /\ gameState \in ApiStates

ApplyBidCall(playerId, suit) ==
    /\ lastCall = IdleCall
    /\ LET bid == [suit |-> suit, playerId |-> playerId, level |-> 1]
           call == CallOnCopy(gameState, applyBid(gameState, bid))
       IN  /\ gameState' = call.output
           /\ lastCall' = [type |-> "applyBid", playerId |-> playerId, card |-> Null,
                           suit |-> suit, error |-> Null, input |-> call.input]
    /\ UNCHANGED <<trickQ, trickOut, legalQ, legalOut, timer>>

ApplyPassCall(playerId) ==
    /\ lastCall = IdleCall
    /\ LET call == CallOnCopy(gameState, applyPass(gameState, playerId))
       IN  /\ gameState' = call.output
           /\ lastCall' = [type |-> "applyPass", playerId |-> playerId, card |-> Null,
                           suit |-> Null, error |-> Null, input |-> call.input]
    /\ UNCHANGED <<trickQ, trickOut, legalQ, legalOut, timer>>

\* applyDealerChoice takes no seat: it acts for state.dealer
ApplyDealerChoiceCall(suit) ==
    /\ lastCall = IdleCall
    /\ LET call == CallOnCopy(gameState, applyDealerChoice(gameState, suit))
       IN  /\ gameState' = call.output
           /\ lastCall' = [type |-> "applyDealerChoice", playerId |-> gameState.dealer,
                           card |-> Null, suit |-> suit, error |-> Null, input |-> call.input]
    /\ UNCHANGED <<trickQ, trickOut, legalQ, legalOut, timer>>

NextApi ==
    \/ \E playerId \in PlayerSet, card \in AllCards : ApplyMoveCall(playerId, card)
    \/ \E playerId \in PlayerSet, suit \in SuitSet : ApplyBidCall(playerId, suit)
    \/ \E playerId \in PlayerSet : ApplyPassCall(playerId)
    \/ \E suit \in SuitSet : ApplyDealerChoiceCall(suit)

SpecApi == InitApi /\ [][NextApi]_vars

(***************************************************************************)
(* applyPass on states of phase bidding whose talon is not empty: a deal   *)
(* with the last n cards of the dealer's hand set aside as the talon,      *)
(* after 0 to MaxTalonPasses passes made in turn.                          *)
(***************************************************************************)
TalonDeal(k, n) ==
    LET state == InitialStates[k]
        hand == state.players[state.dealer].hand
    IN  [state EXCEPT
            !.players[state.dealer].hand = SubSeq(hand, 1, Len(hand) - n),
            !.talon = SubSeq(hand, Len(hand) - n + 1, Len(hand))]

\* the state after n passes, each made by the seat whose turn it is
RECURSIVE PassedInTurn(_, _)
PassedInTurn(state, n) ==
    IF n = 0 THEN state ELSE PassedInTurn(applyPass(state, state.currentPlayer), n - 1)

InitPass ==
    /\ QueriesIdle
    /\ \E k \in 1..NumSeeds, n \in 1..2, passes \in 0..MaxTalonPasses :
          gameState = PassedInTurn(TalonDeal(k, n), passes)

NextPass == \E playerId \in PlayerSet : ApplyPassCall(playerId)

SpecPass == InitPass /\ [][NextPass]_vars

(***************************************************************************)
(* applyPass on states with a standing bid and no talon: the bots bid on a *)
(* deal as the driver lets them, the dealer chooses when all pass, and 0   *)
(* to MaxTalonPasses passes made in turn follow the bid.                   *)
(***************************************************************************)
\* the bidding effect run until a bot bids or the phase is the dealer's choice
RECURSIVE BotBidding(_)
BotBidding(state) ==
    IF state.phase # "bidding" \/ state.currentPlayer = HumanSeat THEN state
    ELSE LET bid == chooseBid(state, state.currentPlayer)
         IN  IF bid = "pass" THEN BotBidding(applyPass(state, state.currentPlayer))
             ELSE applyBid(state, [suit |-> bid, playerId |-> state.currentPlayer,
                                   level |-> 1])

StandingBids(k) ==
    LET state == BotBidding(InitialStates[k])
    IN  IF state.phase = "dealerChoice"
        THEN {applyDealerChoice(state, suit) : suit \in SuitSet}
        ELSE {state}

InitBidPass ==
    /\ QueriesIdle
    /\ \E k \in 1..NumSeeds, passes \in 0..MaxTalonPasses :
       \E state \in StandingBids(k) :
          /\ state.currentBid # NullBid
          /\ gameState = PassedInTurn(state, passes)

SpecBidPass == InitBidPass /\ [][NextPass]_vars

(***************************************************************************)
(* Properties                                                              *)
(***************************************************************************)
HandSet(state, p) == SeqToSet(state.players[p].hand)
PlayedCards(trick) == [i \in 1..Len(trick.cards) |-> trick.cards[i].card]
TrickSeats(trick) == {trick.cards[i].playerId : i \in 1..Len(trick.cards)}
RankOf(card) ==
    CHOOSE n \in 0..(Len(RANK_ORDER) - 1) : RANK_ORDER[n + 1] = card.rank

RECURSIVE Flatten(_)
Flatten(seqs) == IF seqs = <<>> THEN <<>> ELSE Head(seqs) \o Flatten(Tail(seqs))

\* every place a card can be: the hands, the talon, the deck, the current trick
\* and the completed tricks
AllPlaces(state) ==
    Flatten([k \in 1..Len(PLAYER_ORDER) |-> state.players[PLAYER_ORDER[k]].hand])
        \o state.talon \o state.deck \o PlayedCards(state.currentTrick)
        \o Flatten([i \in 1..Len(state.tricks) |-> PlayedCards(state.tricks[i])])

Occurrences(seq, x) == Cardinality({i \in 1..Len(seq) : seq[i] = x})

\* C1: in every reachable state each of the 32 cards is in exactly one place
\* among the four hands, the talon, the deck, the current trick and the
\* completed tricks.
C1_CardConservation ==
    /\ Cardinality(AllCards) = 32
    /\ \A c \in AllCards : Occurrences(AllPlaces(gameState), c) = 1

\* C1 witness: trump was fixed, tricks were completed and a trick is under way
C1_Witness ==
    /\ gameState.phase = "play"
    /\ gameState.trump # Null
    /\ Len(gameState.tricks) >= 2
    /\ Len(gameState.currentTrick.cards) = 2

IsInitialState(state) == \E k \in 1..NumSeeds : state = InitialStates[k]

\* C2: in the state createInitialState returns every hand has 8 cards and the
\* talon has 2 cards.
C2_InitialDealTalon ==
    IsInitialState(gameState) =>
        /\ \A p \in PlayerSet : Len(gameState.players[p].hand) = 8
        /\ Len(gameState.talon) = 2

\* C3: when the phase is scoring, all four hands are empty, eight tricks are
\* completed and the current trick is empty (the hand was scored after the last
\* card of the eighth trick).
C3_ScoringAfterEighthTrick ==
    gameState.phase = "scoring" =>
        /\ \A p \in PlayerSet : Len(gameState.players[p].hand) = 0
        /\ Len(gameState.tricks) = 8
        /\ Len(gameState.currentTrick.cards) = 0

\* the card a seat played in a trick
CardOf(trick, seat) ==
    CHOOSE i \in 1..Len(trick.cards) : trick.cards[i].playerId = seat
CardPlayedBy(trick, seat) == trick.cards[CardOf(trick, seat)].card

\* C4: for every completed trick, evaluateTrick names one of the four seats of
\* the trick and no other card of the trick beats that seat's card under
\* cardBeats (whichever value the flag isFirstTrump is given).
C4_WinnerUndominated ==
    \A i \in 1..Len(gameState.tricks) :
        LET trick == gameState.tricks[i]
            winner == evaluateTrick(trick, gameState.trump)
        IN  /\ winner \in TrickSeats(trick)
            /\ \A k \in 1..Len(trick.cards) :
                  trick.cards[k].playerId # winner =>
                     \E flag \in BOOLEAN :
                        ~cardBeats(trick.cards[k].card, CardPlayedBy(trick, winner),
                                   gameState.trump, flag)

TrumpsOf(trick, trump) == {c \in SeqToSet(PlayedCards(trick)) : c.suit = trump}

\* C5: for every completed trick in which a trump was played, evaluateTrick
\* names the seat that played the trump of highest rank.
C5_HighestTrumpWins ==
    \A i \in 1..Len(gameState.tricks) :
        LET trick == gameState.tricks[i]
            trumps == TrumpsOf(trick, gameState.trump)
            winner == evaluateTrick(trick, gameState.trump)
        IN  trumps # {} =>
              /\ winner \in TrickSeats(trick)
              /\ CardPlayedBy(trick, winner) \in trumps
              /\ \A c \in trumps : RankOf(c) <= RankOf(CardPlayedBy(trick, winner))

LeadSuitOf(trick) == trick.cards[1].card.suit
LeadSuitCards(trick) == {c \in SeqToSet(PlayedCards(trick)) : c.suit = LeadSuitOf(trick)}

\* C6: for every trick of four cards: when no trump was played, evaluateTrick
\* names the seat that played the highest card of the lead suit; and in every
\* case the winning card is of the lead suit or a trump.
C6_HighestLeadSuitWins ==
    trickOut.done =>
        LET trick == trickQ.trick
            won == CardPlayedBy(trick, trickOut.winner)
        IN  /\ trickOut.winner \in TrickSeats(trick)
            /\ won.suit = LeadSuitOf(trick) \/ won.suit = trickQ.trump
            /\ TrumpsOf(trick, trickQ.trump) = {} =>
                  /\ won.suit = LeadSuitOf(trick)
                  /\ \A c \in LeadSuitCards(trick) : RankOf(c) <= RankOf(won)

\* C6 witness: no trump played, a card of another suit outranks every card of
\* the lead suit, and a seat other than the leader wins
C6_Witness ==
    /\ trickOut.done
    /\ TrumpsOf(trickQ.trick, trickQ.trump) = {}
    /\ trickOut.winner # trickQ.trick.cards[1].playerId
    /\ \E c \in SeqToSet(PlayedCards(trickQ.trick)) :
          /\ c.suit # LeadSuitOf(trickQ.trick)
          /\ \A d \in LeadSuitCards(trickQ.trick) : RankOf(c) > RankOf(d)

\* C7: in phase play, for every seat with a non-empty hand, legalMoves returns
\* a non-empty list of cards of that seat's hand.
C7_LegalMovesNonEmpty ==
    gameState.phase = "play" =>
        \A p \in PlayerSet :
            Len(gameState.players[p].hand) > 0 =>
                /\ Len(legalMoves(gameState, p)) > 0
                /\ SeqToSet(legalMoves(gameState, p)) \subseteq HandSet(gameState, p)

\* C7 witness: in phase play a seat is void in the lead suit while trump is in
\* the trick, and another seat's legal moves are only a part of its hand
C7_Witness ==
    /\ gameState.phase = "play"
    /\ Len(gameState.currentTrick.cards) > 0
    /\ \E p \in PlayerSet :
          /\ Len(gameState.players[p].hand) > 0
          /\ \A c \in HandSet(gameState, p) : c.suit # LeadSuitOf(gameState.currentTrick)
          /\ TrumpsOf(gameState.currentTrick, gameState.trump) # {}
    /\ \E p \in PlayerSet :
          /\ SeqToSet(legalMoves(gameState, p)) # HandSet(gameState, p)
          /\ SeqToSet(legalMoves(gameState, p)) # {}

(* legalMoves as a function: the call under test *)
QHand == HandSet(legalQ.state, legalQ.playerId)
QTrick == legalQ.state.currentTrick
QTrump == legalQ.state.trump
QLeadSuitHeld == {c \in QHand : c.suit = LeadSuitOf(QTrick)}
QTrumpsHeld == {c \in QHand : c.suit = QTrump}
QTrumpsPlayed == TrumpsOf(QTrick, QTrump)
\* the returned list as a set, provided it lists no card twice
Returned(cards) == IF Len(cards) = Cardinality(SeqToSet(cards)) THEN SeqToSet(cards) ELSE {}

\* C8: with trump fixed and a non-empty trick, a seat that holds a card of the
\* lead suit gets exactly its cards of the lead suit.
C8_FollowSuit ==
    (legalOut.done /\ QTrump # Null /\ Len(QTrick.cards) > 0 /\ QLeadSuitHeld # {})
        => Returned(legalOut.cards) = QLeadSuitHeld

\* C8 witness: the seat holds the lead suit and a trump while trump is in the trick
C8_Witness ==
    /\ legalOut.done
    /\ Len(QTrick.cards) > 0
    /\ QLeadSuitHeld # {}
    /\ LeadSuitOf(QTrick) # QTrump
    /\ QTrumpsHeld # {}
    /\ QTrumpsPlayed # {}

\* C9: with overtrumpRequired off, a seat void in the lead suit gets exactly
\* its trumps when trump is in the trick and it holds trump, and its whole hand
\* when no trump is in the trick or it holds no trump.
C9_VoidDefault ==
    (legalOut.done /\ ~legalQ.state.config.overtrumpRequired
            /\ Len(QTrick.cards) > 0 /\ QLeadSuitHeld = {})
        => IF QTrumpsPlayed # {} /\ QTrumpsHeld # {}
           THEN Returned(legalOut.cards) = QTrumpsHeld
           ELSE Returned(legalOut.cards) = QHand

\* C9 witness: void in the lead suit, trump in the trick, the seat holds a trump
\* and a card that is not trump
C9_Witness ==
    /\ legalOut.done
    /\ ~legalQ.state.config.overtrumpRequired
    /\ Len(QTrick.cards) > 0
    /\ QLeadSuitHeld = {}
    /\ QTrumpsPlayed # {}
    /\ QTrumpsHeld # {}
    /\ QTrumpsHeld # QHand

QHigherTrumps ==
    {c \in QTrumpsHeld : \A d \in QTrumpsPlayed : RankOf(c) > RankOf(d)}

\* C10: with overtrumpRequired on, a seat void in the lead suit that holds
\* trump while trump is in the trick gets exactly its trumps above the highest
\* trump of the trick if it has any, and all its trumps if it has none.
C10_Overtrump ==
    (legalOut.done /\ legalQ.state.config.overtrumpRequired
            /\ Len(QTrick.cards) > 0 /\ QLeadSuitHeld = {}
            /\ QTrumpsPlayed # {} /\ QTrumpsHeld # {})
        => IF QHigherTrumps # {}
           THEN Returned(legalOut.cards) = QHigherTrumps
           ELSE Returned(legalOut.cards) = QTrumpsHeld

\* C10 witness: the seat holds a trump above and a trump below the highest trump
\* of the trick
C10_Witness ==
    /\ legalOut.done
    /\ legalQ.state.config.overtrumpRequired
    /\ Len(QTrick.cards) > 0
    /\ QLeadSuitHeld = {}
    /\ QTrumpsPlayed # {}
    /\ QHigherTrumps # {}
    /\ QHigherTrumps # QTrumpsHeld
\* C11: for a seat void in the lead suit that holds trump while trump is in the
\* trick, mustTrumpWhenVoid decides: off, legalMoves returns the whole hand; on,
\* it returns only trump cards.
C11_MustTrumpWhenVoid ==
    (legalOut.done /\ Len(QTrick.cards) > 0 /\ QLeadSuitHeld = {}
            /\ QTrumpsPlayed # {} /\ QTrumpsHeld # {})
        => IF legalQ.state.config.mustTrumpWhenVoid
           THEN Returned(legalOut.cards) # {} /\ Returned(legalOut.cards) \subseteq QTrumpsHeld
           ELSE Returned(legalOut.cards) = QHand

\* a step in which a bid is made in phase bidding
BidStep ==
    /\ gameState.phase = "bidding"
    /\ Len(gameState'.bids) = Len(gameState.bids) + 1

\* C12: a bid made in phase bidding takes effect in one transition: afterwards
\* trump is the bid's suit, declarer is the bidding seat, the bidder is the only
\* seat with isDeclarer, the talon is empty and its former cards are at the end
\* of the bidder's hand, phase is play and currentPlayer is the declarer.
C12_BidTakesEffect ==
    [][BidStep =>
        LET bid == gameState'.bids[Len(gameState'.bids)]
            bidder == gameState.currentPlayer
        IN  /\ bid.playerId = bidder
            /\ gameState'.trump = bid.suit
            /\ gameState'.trump \in SuitSet
            /\ gameState'.declarer = bidder
            /\ {p \in PlayerSet : gameState'.players[p].isDeclarer} = {bidder}
            /\ gameState'.talon = <<>>
            /\ gameState'.players[bidder].hand
                  = gameState.players[bidder].hand \o gameState.talon
            /\ \A p \in PlayerSet \ {bidder} :
                  gameState'.players[p].hand = gameState.players[p].hand
            /\ gameState'.phase = "play"
            /\ gameState'.currentPlayer = gameState'.declarer]_vars

\* C12 witness: a seat other than the first to speak has just bid after a pass
C12_Witness ==
    /\ gameState.phase = "play"
    /\ gameState.tricks = <<>>
    /\ gameState.currentTrick.cards = <<>>
    /\ Len(gameState.events) >= 2
    /\ gameState.events[Len(gameState.events)].type = "bid"
    /\ gameState.events[1].type = "pass"
    /\ gameState.declarer # gameState.dealer

\* C13: trump and declarer are both null in phases bidding and dealerChoice and
\* both non-null in phases play and scoring, and no step sets or clears one
\* without the other.
C13_TrumpDeclarerTogether ==
    /\ [](/\ (gameState.trump = Null) <=> (gameState.declarer = Null)
          /\ gameState.phase \in {"bidding", "dealerChoice"}
                => gameState.trump = Null /\ gameState.declarer = Null
          /\ gameState.phase \in {"play", "scoring"}
                => gameState.trump \in SuitSet /\ gameState.declarer \in PlayerSet)
    /\ [][((gameState.trump = Null) # (gameState'.trump = Null))
            <=> ((gameState.declarer = Null) # (gameState'.declarer = Null))]_vars

\* C13 witness: after three passes the dealer has chosen trump and play began
C13_Witness ==
    /\ gameState.phase = "play"
    /\ CountPasses(gameState.events) = 3
    /\ gameState.declarer = gameState.dealer
    /\ gameState.trump \in SuitSet
    /\ Len(gameState.currentTrick.cards) > 0

PassSeats(events) == {events[i].playerId : i \in {j \in 1..Len(events) : events[j].type = "pass"}}

\* C14: the phase is dealerChoice only once all four seats have passed without
\* a bid; in that phase currentPlayer is the dealer and the talon still holds its
\* 2 cards.
C14_DealerChoiceAfterFourPasses ==
    gameState.phase = "dealerChoice" =>
        /\ gameState.bids = <<>>
        /\ CountPasses(gameState.events) = 4
        /\ PassSeats(gameState.events) = PlayerSet
        /\ gameState.currentPlayer = gameState.dealer
        /\ Len(gameState.talon) = 2

Opponents(team) == IF team = "team1" THEN "team2" ELSE "team1"

\* a team's total before the contract bonus: points of the tricks it won, the
\* last-trick bonus if it won the last trick, and its declarations
PreBonus(state, team) ==
    TeamTrickPoints(state.tricks, 1, team)
      + (IF state.config.lastTrickBonus
            /\ getPlayerTeam(state.tricks[Len(state.tricks)].winner) = team
         THEN 10 ELSE 0)
      + TeamDeclarationPoints(state.declarations, 1, team)

\* C15: at hand scoring, when the declarer's team's total before the bonus is
\* above 162, the declarer's team's hand score is that total plus 90 and the
\* other team's hand score is its own total, whichever team declared.
C15_BonusToDeclarerTeam ==
    LET team == getPlayerTeam(gameState.declarer)
    IN  (gameState.phase = "scoring" /\ PreBonus(gameState, team) > 162) =>
            /\ gameState.handScores[team] = PreBonus(gameState, team) + 90
            /\ gameState.handScores[Opponents(team)] = PreBonus(gameState, Opponents(team))

\* C16: at hand scoring, when the declarer's team's total before the bonus is
\* not above 162, the other team's hand score is its own total plus 90 and the
\* declarer's team's hand score is its own total.
C16_BonusToDefenders ==
    LET team == getPlayerTeam(gameState.declarer)
    IN  (gameState.phase = "scoring" /\ PreBonus(gameState, team) <= 162) =>
            /\ gameState.handScores[Opponents(team)] = PreBonus(gameState, Opponents(team)) + 90
            /\ gameState.handScores[team] = PreBonus(gameState, team)

TeamSet == {"team1", "team2"}

\* C17: no step lowers a team's match score; the step that completes a hand
\* adds each team's hand score to its match score; the deal that follows a
\* scored hand keeps the match scores.
C17_MatchScoresMonotone ==
    [][/\ \A t \in TeamSet : gameState'.matchScores[t] >= gameState.matchScores[t]
       /\ (gameState.phase = "play" /\ gameState'.phase = "scoring") =>
             \A t \in TeamSet :
                gameState'.matchScores[t] = gameState.matchScores[t] + gameState'.handScores[t]
       /\ (gameState.phase = "scoring" /\ gameState'.phase = "bidding") =>
             gameState'.matchScores = gameState.matchScores]_vars

\* the hand has been scored: hand_complete is the last event
HandScored ==
    /\ Len(gameState.events) > 0
    /\ gameState.events[Len(gameState.events)].type = "hand_complete"

TargetReached ==
    \E t \in TeamSet : gameState.matchScores[t] >= gameState.config.matchTargetScore

\* C18: once a hand is scored, if a team's match score is at or above
\* config.matchTargetScore the phase becomes gameOver, and if neither is, the
\* game goes on to the next deal (phase deal or bidding).
C18_MatchEndsAtTarget ==
    /\ (HandScored /\ TargetReached) ~> (gameState.phase = "gameOver")
    /\ (HandScored /\ ~TargetReached) ~> (gameState.phase \in {"deal", "bidding"})

EventTypes(events) == {events[i].type : i \in 1..Len(events)}

\* C19: every transition (applyBid, applyPass, applyDealerChoice, applyMove:
\* every step but the fresh deal of a new game) leaves the former events as a
\* prefix of the event log and makes the log longer.
C19_EventsAppendOnly ==
    [][~IsInitialState(gameState') =>
        /\ Len(gameState'.events) > Len(gameState.events)
        /\ SubSeq(gameState'.events, 1, Len(gameState.events)) = gameState.events]_vars

\* C19 witness: a scored hand whose log holds events of every transition
C19_Witness ==
    /\ gameState.phase = "scoring"
    /\ {"pass", "bid", "play_card", "trick_complete", "hand_complete"}
          \subseteq EventTypes(gameState.events)
    /\ gameState.events[Len(gameState.events)].type = "hand_complete"

\* C20: a call of applyMove with a card that is not in the acting seat's hand
\* throws an error and leaves the state (hands, current trick, events, scores,
\* currentPlayer, phase) as it was; applyMove throws in no other case here.
C20_RejectedMoveKeepsState ==
    [][lastCall' # lastCall =>
        IF lastCall'.card \in HandSet(gameState, lastCall'.playerId)
        THEN lastCall'.error = Null
        ELSE /\ lastCall'.error # Null
             /\ gameState' = gameState]_vars

\* C20 witness: the seat to play called applyMove with a card the table holds
C20_Witness ==
    /\ lastCall.error # Null
    /\ lastCall.playerId = gameState.currentPlayer
    /\ lastCall.card \in SeqToSet(PlayedCards(gameState.currentTrick))
    /\ Len(gameState.players[gameState.currentPlayer].hand) > 0
    /\ gameState.events = <<>>

\* C21: a call of applyMove with a card that is in the acting seat's hand but
\* not among legalMoves(state, seat) fails: it throws and the state, and so the
\* trick, is as it was.
C21_IllegalMoveRejected ==
    [][lastCall' # lastCall =>
        LET seat == lastCall'.playerId
        IN  (/\ lastCall'.card \in HandSet(gameState, seat)
             /\ lastCall'.card \notin SeqToSet(legalMoves(gameState, seat)))
            => /\ lastCall'.error # Null
               /\ gameState' = gameState]_vars

SeatsOnce(trick) == Cardinality(TrickSeats(trick)) = Len(trick.cards)

\* C22: a card play, a pass or a bid submitted for a seat other than
\* currentPlayer is rejected with an error and the state is unchanged; no seat
\* has two cards in the same trick.
C22_WrongTurnRejected ==
    /\ [][(/\ lastCall' # lastCall
            /\ lastCall'.type \in {"applyMove", "applyPass", "applyBid"}
            /\ lastCall'.playerId # gameState.currentPlayer)
           => /\ lastCall'.error # Null
              /\ gameState' = gameState]_vars
    /\ [](/\ SeatsOnce(gameState.currentTrick)
          /\ \A i \in 1..Len(gameState.tricks) : SeatsOnce(gameState.tricks[i]))

\* C23: a transition called in a phase it does not belong to is rejected with
\* an error and the state is unchanged: applyMove outside phase play, applyBid
\* and applyPass outside phase bidding, applyDealerChoice outside phase
\* dealerChoice.
C23_WrongPhaseRejected ==
    [][(/\ lastCall' # lastCall
        /\ \/ lastCall'.type = "applyMove"
                 /\ gameState.phase \in {"bidding", "dealerChoice", "scoring"}
           \/ lastCall'.type \in {"applyBid", "applyPass"}
                 /\ gameState.phase \in {"play", "scoring"}
           \/ lastCall'.type = "applyDealerChoice"
                 /\ gameState.phase # "dealerChoice")
       => /\ lastCall'.error # Null
          /\ gameState' = gameState]_vars

\* C24: in a state of phase play where it is the seat's turn and its hand is
\* not empty, the card returned by BotLevel1.chooseMove, by BotLevel2.chooseMove
\* and by getHint is one of legalMoves(state, seat), and so one of the seat's
\* hand.
C24_ChosenCardIsLegal ==
    (/\ lastCall.type \in {"BotLevel1.chooseMove", "BotLevel2.chooseMove", "getHint"}
     /\ legalQ.state.phase = "play"
     /\ legalQ.state.currentPlayer = lastCall.playerId
     /\ Len(legalQ.state.players[lastCall.playerId].hand) > 0)
    => /\ lastCall.card \in SeqToSet(legalMoves(legalQ.state, lastCall.playerId))
       /\ lastCall.card \in HandSet(legalQ.state, lastCall.playerId)

\* the hint was asked of a seat that must follow suit and holds a lower card of
\* another suit
C24_Witness ==
    /\ lastCall.type = "getHint"
    /\ legalQ.state.phase = "play"
    /\ legalQ.state.currentPlayer = lastCall.playerId
    /\ Len(legalQ.state.currentTrick.cards) > 0
    /\ Sort(legalQ.state.players[lastCall.playerId].hand, RankAsc)[1]
          \notin SeqToSet(legalMoves(legalQ.state, lastCall.playerId))
    /\ lastCall.card \in SeqToSet(legalMoves(legalQ.state, lastCall.playerId))

BelasOf(state, p) ==
    {i \in 1..Len(state.declarations) :
        state.declarations[i].type = "bela" /\ state.declarations[i].playerId = p}

HoldsKingQueen(state, p, suit) ==
    {[suit |-> suit, rank |-> "K"], [suit |-> suit, rank |-> "Q"]} \subseteq HandSet(state, p)

\* C25: in the step that fixes trump, with declarations enabled, a seat gets
\* exactly one bela declaration, worth 20 points, when its hand holds the King
\* and the Queen of the trump suit, and no bela declaration otherwise, whatever
\* its other cards; King and Queen of another suit give none.
C25_BelaIffKingQueenOfTrump ==
    [][(/\ gameState.trump = Null
        /\ gameState'.trump # Null
        /\ gameState'.config.declarationsEnabled)
       => \A p \in PlayerSet :
            /\ Cardinality(BelasOf(gameState', p))
                 = IF HoldsKingQueen(gameState', p, gameState'.trump) THEN 1 ELSE 0
            /\ \A i \in BelasOf(gameState', p) : gameState'.declarations[i].points = 20]_vars

\* trump has just been fixed: one seat holds King and Queen of trump and has its
\* bela, another holds King and Queen of another suit and has none
C25_Witness ==
    /\ gameState.phase = "play"
    /\ gameState.tricks = <<>>
    /\ gameState.currentTrick.cards = <<>>
    /\ gameState.config.declarationsEnabled
    /\ \E p \in PlayerSet :
          /\ HoldsKingQueen(gameState, p, gameState.trump)
          /\ Cardinality(BelasOf(gameState, p)) = 1
    /\ \E p \in PlayerSet, suit \in SuitSet \ {gameState.trump} :
          /\ HoldsKingQueen(gameState, p, suit)
          /\ ~HoldsKingQueen(gameState, p, gameState.trump)
          /\ BelasOf(gameState, p) = {}

DeclarationCards(state, i) == SeqToSet(state.declarations[i].cards)

\* C26: there are no declarations before trump is fixed; in the step that fixes
\* trump every declaration's cards are cards of the declaring seat's hand; and
\* no later card play changes state.declarations.
C26_DeclarationsFixedWithTrump ==
    /\ [](gameState.trump = Null => gameState.declarations = <<>>)
    /\ [][(gameState.trump = Null /\ gameState'.trump # Null)
           => \A i \in 1..Len(gameState'.declarations) :
                DeclarationCards(gameState', i)
                    \subseteq HandSet(gameState', gameState'.declarations[i].playerId)]_vars
    /\ [][(gameState.trump # Null /\ gameState'.trump # Null)
           => gameState'.declarations = gameState.declarations]_vars

\* a card of a declaration has been played and the declaration is still there
C26_Witness ==
    /\ gameState.phase = "play"
    /\ Len(gameState.tricks) > 0
    /\ \E i \in 1..Len(gameState.declarations) :
          DeclarationCards(gameState, i)
              \ HandSet(gameState, gameState.declarations[i].playerId) # {}

Transitions == {"applyBid", "applyPass", "applyDealerChoice", "applyMove"}

C28_DriverActsOnLiveState ==
    [][(lastCall' # lastCall /\ lastCall'.type \in Transitions)
       => /\ lastCall'.playerId = gameState.currentPlayer
          /\ lastCall'.type = "applyMove" => gameState.phase = "play"
          /\ lastCall'.type \in {"applyBid", "applyPass"} => gameState.phase = "bidding"
          /\ lastCall'.type = "applyDealerChoice" => gameState.phase = "dealerChoice"
          /\ lastCall'.input = gameState]_vars

\* the cards dealt to a seat: those it holds and those it has played
CardsDealtTo(state, p) ==
    HandSet(state, p)
    \cup {state.currentTrick.cards[i].card :
            i \in {j \in 1..Len(state.currentTrick.cards) :
                        state.currentTrick.cards[j].playerId = p}}
    \cup UNION {{state.tricks[t].cards[i].card :
                    i \in {j \in 1..Len(state.tricks[t].cards) :
                                state.tricks[t].cards[j].playerId = p}} :
                t \in 1..Len(state.tricks)}

SameDeal(s, t) == \A p \in PlayerSet : CardsDealtTo(s, p) = CardsDealtTo(t, p)

\* C29: handleNewGame installs a freshly dealt state, and from then on every
\* live state derives from that deal: no step other than handleNewGame, a
\* timeout set on an earlier game included, replaces the live state by a state
\* of another deal.
C29_NewGameDiscardsOldGame ==
    [][IF lastCall'.type = "handleNewGame"
       THEN IsInitialState(gameState')
       ELSE SameDeal(gameState, gameState')]_vars

PhaseOrder == <<"bidding", "dealerChoice", "play", "scoring">>

\* C30: within a hand the phase never moves back in the order bidding,
\* dealerChoice, play, scoring; dealerChoice is entered from bidding only, play
\* from bidding by a bid or from dealerChoice, scoring from play only: no
\* transition returns a state of an earlier phase.
C30_PhaseMovesForward ==
    [][~IsInitialState(gameState')
       => /\ IndexOf(PhaseOrder, gameState'.phase) >= IndexOf(PhaseOrder, gameState.phase)
          /\ (gameState'.phase = "dealerChoice" /\ gameState.phase # "dealerChoice")
                => gameState.phase = "bidding"
          /\ (gameState'.phase = "play" /\ gameState.phase # "play")
                => \/ /\ gameState.phase = "bidding"
                      /\ Len(gameState'.bids) = Len(gameState.bids) + 1
                   \/ gameState.phase = "dealerChoice"
          /\ (gameState'.phase = "scoring" /\ gameState.phase # "scoring")
                => gameState.phase = "play"]_vars

\* C31: currentTrick always holds 0 to 3 cards and has no winner; every trick of
\* state.tricks holds 4 cards, has a winner and has its points set; the step
\* that plays a trick's fourth card appends the trick, with winner and points,
\* to state.tricks and empties currentTrick.
C31_TrickLifecycle ==
    /\ [](/\ Len(gameState.currentTrick.cards) \in 0..3
          /\ gameState.currentTrick.winner = Null
          /\ \A i \in 1..Len(gameState.tricks) :
                /\ Len(gameState.tricks[i].cards) = 4
                /\ gameState.tricks[i].winner \in PlayerSet
                /\ gameState.tricks[i].points
                     = scoreTrick(gameState.tricks[i], gameState.trump))
    /\ [][(/\ Len(gameState.currentTrick.cards) = 3
           /\ gameState'.events # gameState.events
           /\ ~IsInitialState(gameState'))
          => /\ gameState'.currentTrick = EmptyTrick
             /\ Len(gameState'.tricks) = Len(gameState.tricks) + 1
             /\ SubSeq(gameState'.tricks, 1, Len(gameState.tricks)) = gameState.tricks
             /\ LET done == gameState'.tricks[Len(gameState'.tricks)]
                IN  /\ SubSeq(done.cards, 1, 3) = gameState.currentTrick.cards
                    /\ done.winner = evaluateTrick(done, gameState.trump)]_vars

\* a fourth card has just been played: the trick is in state.tricks and the
\* table is empty
C31_Witness ==
    /\ gameState.phase = "play"
    /\ Len(gameState.tricks) >= 2
    /\ gameState.currentTrick = EmptyTrick
    /\ gameState.events[Len(gameState.events)].type = "trick_complete"

Rotation == [north |-> "east", east |-> "south", south |-> "west", west |-> "north"]

LastTrick(state) == state.tricks[Len(state.tricks)]

\* C32: after a card play that completes a trick currentPlayer is the seat
\* evaluateTrick names as the winner of that trick; after a card play that does
\* not complete the trick currentPlayer is the seat after the mover in the
\* rotation north, east, south, west, north.
C32_TurnAfterCardPlay ==
    [][(gameState.phase = "play" /\ ~IsInitialState(gameState')
        /\ gameState'.events # gameState.events)
       => IF Len(gameState.currentTrick.cards) = 3
          THEN /\ Len(gameState'.tricks) = Len(gameState.tricks) + 1
               /\ gameState'.currentPlayer
                    = evaluateTrick(LastTrick(gameState'), gameState.trump)
          ELSE LET cards == gameState'.currentTrick.cards
               IN  /\ Len(cards) = Len(gameState.currentTrick.cards) + 1
                   /\ gameState'.currentPlayer = Rotation[cards[Len(cards)].playerId]]_vars

\* a trick has just been completed and its winner, who is not the seat after
\* the one that played last, is to lead
C32_Witness ==
    /\ gameState.phase = "play"
    /\ Len(gameState.tricks) > 0
    /\ gameState.currentTrick = EmptyTrick
    /\ gameState.currentPlayer = LastTrick(gameState).winner
    /\ gameState.currentPlayer # Rotation[LastTrick(gameState).cards[4].playerId]

\* C33: in every state of phase play that the driver reaches, currentPlayer is
\* a seat whose hand is not empty.
C33_CurrentPlayerHoldsCards ==
    gameState.phase = "play"
        => Len(gameState.players[gameState.currentPlayer].hand) > 0

\* seven tricks are done and the seat to lead holds its last card
C33_Witness ==
    /\ gameState.phase = "play"
    /\ Len(gameState.tricks) = 7
    /\ gameState.currentTrick = EmptyTrick
    /\ Len(gameState.players[gameState.currentPlayer].hand) = 1

\* C34: while the talon is not empty, applyPass appends one pass event and makes
\* the next seat in rotation the currentPlayer, and changes nothing else: phase
\* (so it never enters dealerChoice), trump, declarer, hands, talon, bids and
\* scores are as before, however many passes are logged.
C34_PassWithTalonOnlyAdvances ==
    [][(/\ lastCall' # lastCall
        /\ lastCall'.type = "applyPass"
        /\ Len(gameState.talon) > 0)
       => /\ gameState'.currentPlayer = Rotation[lastCall'.playerId]
          /\ Len(gameState'.events) = Len(gameState.events) + 1
          /\ SubSeq(gameState'.events, 1, Len(gameState.events)) = gameState.events
          /\ gameState'.events[Len(gameState'.events)].type = "pass"
          /\ gameState'.events[Len(gameState'.events)].playerId = lastCall'.playerId
          /\ gameState'.phase = gameState.phase
          /\ gameState'.phase # "dealerChoice"
          /\ [gameState' EXCEPT !.currentPlayer = gameState.currentPlayer,
                                !.events = gameState.events] = gameState]_vars

\* a fourth pass was made with the talon in place and the bidding goes on
C34_Witness ==
    /\ lastCall.type = "applyPass"
    /\ Len(gameState.talon) > 0
    /\ CountPasses(gameState.events) >= 4
    /\ gameState.phase = "bidding"
    /\ gameState.bids = <<>>

\* the number of pass events that follow the last bid event of the log
RECURSIVE PassesSinceBid(_)
PassesSinceBid(events) ==
    IF events = <<>> \/ events[Len(events)].type # "pass" THEN 0
    ELSE 1 + PassesSinceBid(SubSeq(events, 1, Len(events) - 1))

\* C35: with a standing bid and no talon, applyPass finalizes the bidding
\* exactly on the third consecutive pass after the bid: the first and the
\* second pass after the bid only pass the turn to the next seat, whatever
\* passes came before the bid; the third makes the bidder the declarer, the
\* phase play and the seat after the dealer the currentPlayer.
C35_ThreePassesFinalizeBid ==
    [][(/\ lastCall' # lastCall
        /\ lastCall'.type = "applyPass"
        /\ gameState.currentBid # NullBid
        /\ Len(gameState.talon) = 0)
       => /\ PassesSinceBid(gameState'.events) \in {1, 2}
               => /\ gameState'.currentPlayer = Rotation[lastCall'.playerId]
                  /\ gameState'.phase = gameState.phase
          /\ PassesSinceBid(gameState'.events) = 3
               => /\ gameState'.phase = "play"
                  /\ gameState'.declarer = gameState.currentBid.playerId
                  /\ gameState'.currentPlayer = Rotation[gameState.dealer]]_vars

SuitLength(state, p, suit) == Cardinality({c \in HandSet(state, p) : c.suit = suit})

\* C36: when the human is to lead (trick empty, trump fixed), getHint suggests
\* the lowest-ranked trump of the hand if the hand holds a trump, and otherwise
\* the lowest-ranked card of a longest suit of the hand.
C36_HintWhenLeading ==
    (/\ gameState.phase = "play"
     /\ gameState.currentPlayer = HumanSeat
     /\ gameState.trump # Null
     /\ gameState.currentTrick.cards = <<>>)
    => LET hint == getHint(gameState, HumanSeat)
           hand == HandSet(gameState, HumanSeat)
           trumps == {c \in hand : c.suit = gameState.trump}
       IN  IF trumps # {}
           THEN /\ hint \in trumps
                /\ \A c \in trumps : getRankIndex(hint.rank) <= getRankIndex(c.rank)
           ELSE /\ hint \in hand
                /\ \A suit \in SuitSet :
                      SuitLength(gameState, HumanSeat, hint.suit)
                        >= SuitLength(gameState, HumanSeat, suit)
                /\ \A c \in hand :
                      c.suit = hint.suit => getRankIndex(hint.rank) <= getRankIndex(c.rank)

\* the trick of the state with the card of the seat added to it
TrickWith(state, seat, card) ==
    [state.currentTrick EXCEPT !.cards = Append(@, [playerId |-> seat, card |-> card])]

\* the legal cards of the seat that evaluateTrick makes the winner once played
WinningCards(state, seat) ==
    {c \in SeqToSet(legalMoves(state, seat)) :
        evaluateTrick(TrickWith(state, seat, c), state.trump) = seat}

\* C37: when following, BotLevel1.chooseMove plays the lowest-ranked of its
\* legal cards that win the trick so far as evaluateTrick resolves it, whenever
\* there is one; it discards only when no legal card wins.
C37_BotPlaysLowestWinner ==
    (/\ lastCall.type = "BotLevel1.chooseMove"
     /\ Len(legalQ.state.currentTrick.cards) > 0
     /\ WinningCards(legalQ.state, lastCall.playerId) # {})
    => /\ lastCall.card \in WinningCards(legalQ.state, lastCall.playerId)
       /\ \A c \in WinningCards(legalQ.state, lastCall.playerId) :
             getRankIndex(lastCall.card.rank) <= getRankIndex(c.rank)

EventsOfType(events, type) == {i \in 1..Len(events) : events[i].type = type}

\* C38: the event log agrees with the table: there are as many play_card
\* events as cards in the completed tricks and in currentTrick, as many
\* trick_complete events as completed tricks, each trick_complete event comes
\* right after the play_card event of that trick's fourth card, and there is at
\* most one hand_complete event, which is the last event.
C38_EventLogMatchesTable ==
    LET events == gameState.events
        done(i) == Cardinality({j \in EventsOfType(events, "trick_complete") : j <= i})
    IN  /\ Cardinality(EventsOfType(events, "play_card"))
             = 4 * Len(gameState.tricks) + Len(gameState.currentTrick.cards)
        /\ Cardinality(EventsOfType(events, "trick_complete")) = Len(gameState.tricks)
        /\ \A i \in EventsOfType(events, "trick_complete") :
              /\ i > 1
              /\ events[i - 1].type = "play_card"
              /\ events[i - 1].playerId = gameState.tricks[done(i)].cards[4].playerId
              /\ events[i - 1].data = gameState.tricks[done(i)].cards[4].card
        /\ Cardinality(EventsOfType(events, "hand_complete")) <= 1
        /\ EventsOfType(events, "hand_complete") \subseteq {Len(events)}

\* a hand has been played and scored: its log ends with the hand_complete event
C38_Witness ==
    /\ gameState.phase = "scoring"
    /\ Len(gameState.tricks) >= 7
    /\ EventsOfType(gameState.events, "hand_complete") = {Len(gameState.events)}
    /\ Cardinality(EventsOfType(gameState.events, "trick_complete")) >= 7

\* the points of the tricks a team has won, with the last-trick bonus when the
\* team won the last trick and the bonus is on
TrickPointsOf(state, team) ==
    TeamTrickPoints(state.tricks, 1, team)
    + (IF state.config.lastTrickBonus
          /\ getPlayerTeam(LastTrick(state).winner) = team
       THEN 10 ELSE 0)

C40_BotTurnIsScheduled ==
    (/\ gameState.phase \in {"bidding", "play"}
     /\ gameState.currentPlayer # HumanSeat)
    => timer.pending
====
